---- MODULE Spec2Model ----
(***************************************************************************)
(* A model of spec-mas: the progressive validation gates                   *)
(* (src/src/validation/gates.py) and the adversarial review                *)
(* (src/src/adversarial/review.py).                                        *)
(*                                                                         *)
(* Python strings are sequences of one-character strings, so that the      *)
(* substring tests, prefixes, slices and regular expressions of the code   *)
(* are computed on characters.  Python values are tagged records.          *)
(***************************************************************************)
EXTENDS Integers, Sequences, FiniteSets, TLC

----------------------------------------------------------------------------
(* Characters and strings *)

Range(s) == {s[i] : i \in 1..Len(s)}

UpperSet == Range(<<"A","B","C","D","E","F","G","H","I","J","K","L","M","N","O","P","Q","R","S","T","U","V","W","X","Y","Z">>)
LowerSet == Range(<<"a","b","c","d","e","f","g","h","i","j","k","l","m","n","o","p","q","r","s","t","u","v","w","x","y","z">>)
DigitSet == Range(<<"0","1","2","3","4","5","6","7","8","9">>)
\* \w of the re module, on the ASCII characters of the documents
WordChars == UpperSet \cup LowerSet \cup DigitSet \cup {"_"}
\* \s of the re module
SpaceChars == {" ", "\t", "\n", "\r"}

\* a sequence given as a function on 1..n, as a tuple
List(f) == f \o <<>>

LowerOf ==
    ("A" :> "a") @@ ("B" :> "b") @@ ("C" :> "c") @@ ("D" :> "d") @@ ("E" :> "e")
    @@ ("F" :> "f") @@ ("G" :> "g") @@ ("H" :> "h") @@ ("I" :> "i") @@ ("J" :> "j")
    @@ ("K" :> "k") @@ ("L" :> "l") @@ ("M" :> "m") @@ ("N" :> "n") @@ ("O" :> "o")
    @@ ("P" :> "p") @@ ("Q" :> "q") @@ ("R" :> "r") @@ ("S" :> "s") @@ ("T" :> "t")
    @@ ("U" :> "u") @@ ("V" :> "v") @@ ("W" :> "w") @@ ("X" :> "x") @@ ("Y" :> "y")
    @@ ("Z" :> "z")

\* str.lower()
Lower(s) == List([i \in 1..Len(s) |-> IF s[i] \in UpperSet THEN LowerOf[s[i]] ELSE s[i]])

\* s[:n]
Take(s, n) == IF Len(s) <= n THEN s ELSE SubSeq(s, 1, n)

\* s[n:]
Drop(s, n) == IF Len(s) <= n THEN <<>> ELSE SubSeq(s, n + 1, Len(s))

\* s.startswith(p)
StartsWith(s, p) == Len(p) <= Len(s) /\ SubSeq(s, 1, Len(p)) = p

\* the text of h from position i on starts with n
MatchAt(h, i, n) ==
    /\ i + Len(n) - 1 <= Len(h)
    /\ SubSeq(h, i, i + Len(n) - 1) = n

\* n in h, for strings
Contains(h, n) ==
    \/ n = <<>>
    \/ \E i \in 1..(Len(h) - Len(n) + 1) : h[i] = n[1] /\ MatchAt(h, i, n)

\* any(k in h for k in ks)
ContainsAny(h, ks) == \E j \in 1..Len(ks) : Contains(h, ks[j])

RECURSIVE StripLeft(_)
StripLeft(s) ==
    IF s # <<>> /\ s[1] \in SpaceChars THEN StripLeft(Tail(s)) ELSE s

RECURSIVE StripRight(_)
StripRight(s) ==
    IF s # <<>> /\ s[Len(s)] \in SpaceChars
    THEN StripRight(SubSeq(s, 1, Len(s) - 1))
    ELSE s

\* str.strip()
Strip(s) == StripRight(StripLeft(s))

RECURSIVE Concat(_)
\* "".join(parts), by halves
Concat(parts) ==
    IF Len(parts) = 0 THEN <<>>
    ELSE IF Len(parts) = 1 THEN parts[1]
    ELSE LET half == Len(parts) \div 2
         IN  Concat(SubSeq(parts, 1, half)) \o Concat(SubSeq(parts, half + 1, Len(parts)))

\* sep.join(parts)
Join(sep, parts) ==
    Concat(List([i \in 1..Len(parts) |-> IF i = 1 THEN parts[i] ELSE sep \o parts[i]]))

RECURSIVE IntDigits(_)
IntDigits(n) ==
    IF n < 10 THEN <<<<"0","1","2","3","4","5","6","7","8","9">>[n + 1]>>
    ELSE IntDigits(n \div 10) \o <<<<"0","1","2","3","4","5","6","7","8","9">>[(n % 10) + 1]>>

\* str(n) of an int
IntStr(n) == IF n < 0 THEN <<"-">> \o IntDigits(0 - n) ELSE IntDigits(n)

RECURSIVE SeqFilterIdx(_, _, _)
\* the indices i of 1..n, in order, with P[i]
SeqFilterIdx(P, i, n) ==
    IF i > n THEN <<>>
    ELSE (IF P[i] THEN <<i>> ELSE <<>>) \o SeqFilterIdx(P, i + 1, n)

\* x in xs, for a list
InSeq(x, xs) == \E i \in 1..Len(xs) : xs[i] = x

\* the orders in which a set of n elements can be listed
Orders(S) ==
    {p \in [1..Cardinality(S) -> S] : \A x \in S : \E i \in 1..Cardinality(S) : p[i] = x}

----------------------------------------------------------------------------
(* Python values: str, int, None, list, dict (insertion-ordered) *)

PyStr(s) == [t |-> "str", s |-> s]
PyInt(n) == [t |-> "int", n |-> n]
PyNone == [t |-> "none"]
PyList(items) == [t |-> "list", items |-> items]
\* kv: the sequence of <<key, value>> pairs in insertion order; keys are strings
PyDict(kv) == [t |-> "dict", kv |-> kv]

\* a list of strings
StrList(ss) == PyList(List([i \in 1..Len(ss) |-> PyStr(ss[i])]))

IsStr(v) == v.t = "str"
IsList(v) == v.t = "list"
IsDict(v) == v.t = "dict"

\* bool(v)
Truthy(v) ==
    CASE v.t = "str" -> v.s # <<>>
      [] v.t = "int" -> v.n # 0
      [] v.t = "none" -> FALSE
      [] v.t = "list" -> v.items # <<>>
      [] v.t = "dict" -> v.kv # <<>>

\* repr() of a str: single quotes unless the text has ' and no "
StrRepr(s) ==
    LET chars == Range(s)
        q == IF "'" \in chars /\ ~("\"" \in chars) THEN "\"" ELSE "'"
        esc(c) == IF c = "\\" \/ c = q THEN <<"\\", c>> ELSE <<c>>
    IN  IF "\\" \notin chars /\ q \notin chars THEN <<q>> \o s \o <<q>>
        ELSE <<q>> \o Concat(List([i \in 1..Len(s) |-> esc(s[i])])) \o <<q>>

RECURSIVE Repr(_)
\* repr(v); str(v) of a list or a dict is its repr
Repr(v) ==
    CASE v.t = "str" -> StrRepr(v.s)
      [] v.t = "int" -> IntStr(v.n)
      [] v.t = "none" -> <<"N","o","n","e">>
      [] v.t = "list" ->
            <<"[">> \o Join(<<","," ">>, List([i \in 1..Len(v.items) |-> Repr(v.items[i])])) \o <<"]">>
      [] v.t = "dict" ->
            <<"{">>
            \o Join(<<","," ">>, List([i \in 1..Len(v.kv) |->
                                StrRepr(v.kv[i][1]) \o <<":"," ">> \o Repr(v.kv[i][2])]))
            \o <<"}">>

\* str(v)
Str(v) == IF v.t = "str" THEN v.s ELSE Repr(v)

\* x if isinstance(x, str) else str(x)
TextOf(v) == Str(v)

\* key in d, for a dict
HasKey(d, k) == \E i \in 1..Len(d.kv) : d.kv[i][1] = k

\* d[k], for a key of d
Get(d, k) == d.kv[CHOOSE i \in 1..Len(d.kv) : d.kv[i][1] = k][2]

\* d.get(k, default)
GetOr(d, k, default) == IF HasKey(d, k) THEN Get(d, k) ELSE default

----------------------------------------------------------------------------
(* Outcomes of a call: a returned value or a raised exception *)

Raise == [raised |-> TRUE]
Ok(v) == [raised |-> FALSE, value |-> v]

\* iter(v) is defined for str, list and dict; for int and None it raises TypeError
Iterable(v) == v.t \in {"str", "list", "dict"}

\* list(v), for an iterable v
Items(v) ==
    CASE v.t = "list" -> v.items
      [] v.t = "str" -> List([i \in 1..Len(v.s) |-> PyStr(<<v.s[i]>>)])
      [] v.t = "dict" -> List([i \in 1..Len(v.kv) |-> PyStr(v.kv[i][1])])

\* a formatted message: the f-string's text with {} for each field, and the fields
Msg(fmt, args) == [fmt |-> fmt, args |-> args]

\* [f(i) for i in 1..n if P(i)], with F[i] = <<>> when P fails
Flatten(F, n) == Concat(List([i \in 1..n |-> F[i]]))

----------------------------------------------------------------------------
(* Section names *)

----------------------------------------------------------------------------
(* ValidationLevel and ValidationResult *)

ValidationLevel == <<"SYNTAX", "SEMANTIC", "COVERAGE", "CROSS_REFERENCE">>

ValidationResult(passed, level, errors, warnings, suggestions, ready) ==
    [passed |-> passed, level |-> level, errors |-> errors, warnings |-> warnings,
     suggestions |-> suggestions, ready_for_adversarial |-> ready]

----------------------------------------------------------------------------
(* _parse_markdown *)

\* the section a heading line switches to, or <<>> when the line is no heading
HeadingOf(line) ==
    IF StartsWith(line, <<"#","#"," ","U","s","e","r"," ","S","t","o","r","i","e","s">>) THEN <<"u","s","e","r","_","s","t","o","r","i","e","s">>
    ELSE IF StartsWith(line, <<"#","#"," ","F","u","n","c","t","i","o","n","a","l"," ","R","e","q","u","i","r","e","m","e","n","t","s">>) THEN <<"f","u","n","c","t","i","o","n","a","l","_","r","e","q","u","i","r","e","m","e","n","t","s">>
    ELSE IF StartsWith(line, <<"#","#"," ","N","o","n","-","F","u","n","c","t","i","o","n","a","l"," ","R","e","q","u","i","r","e","m","e","n","t","s">>)
         THEN <<"n","o","n","_","f","u","n","c","t","i","o","n","a","l","_","r","e","q","u","i","r","e","m","e","n","t","s">>
    ELSE IF StartsWith(line, <<"#","#"," ","A","c","c","e","p","t","a","n","c","e"," ","C","r","i","t","e","r","i","a">>) THEN <<"a","c","c","e","p","t","a","n","c","e","_","c","r","i","t","e","r","i","a">>
    ELSE <<>>

MdSections ==
    <<<<"u","s","e","r","_","s","t","o","r","i","e","s">>, <<"f","u","n","c","t","i","o","n","a","l","_","r","e","q","u","i","r","e","m","e","n","t","s">>, <<"n","o","n","_","f","u","n","c","t","i","o","n","a","l","_","r","e","q","u","i","r","e","m","e","n","t","s">>,
      <<"a","c","c","e","p","t","a","n","c","e","_","c","r","i","t","e","r","i","a">>>>

RECURSIVE ParseLines(_, _, _)
\* the loop over content.split('\n'): acc maps each section to its list so far
ParseLines(lines, current_section, acc) ==
    IF lines = <<>> THEN acc
    ELSE LET line == Head(lines)
             h == HeadingOf(line)
         IN  IF h # <<>> THEN ParseLines(Tail(lines), h, acc)
             ELSE IF current_section # <<>> /\ StartsWith(Strip(line), <<"-">>)
                  THEN ParseLines(Tail(lines), current_section,
                         [acc EXCEPT ![current_section] =
                             Append(@, Strip(Drop(Strip(line), 1)))])
                  ELSE ParseLines(Tail(lines), current_section, acc)

_parse_markdown(lines) ==
    LET acc == ParseLines(lines, <<>>, [k \in Range(MdSections) |-> <<>>])
    IN  PyDict(List([i \in 1..4 |-> <<MdSections[i], StrList(acc[MdSections[i]])>>]))

\* _load_spec: yaml.safe_load's value for a .yaml file, _parse_markdown otherwise;
\* an unreadable file raises
_load_spec(f) ==
    IF ~f.readable THEN Raise
    ELSE IF f.suffix = <<".","y","a","m","l">> THEN Ok(f.yaml)
    ELSE Ok(_parse_markdown(f.lines))

----------------------------------------------------------------------------
(* Level 1: syntax *)

required_sections == <<<<"u","s","e","r","_","s","t","o","r","i","e","s">>, <<"f","u","n","c","t","i","o","n","a","l","_","r","e","q","u","i","r","e","m","e","n","t","s">>, <<"a","c","c","e","p","t","a","n","c","e","_","c","r","i","t","e","r","i","a">>>>

L1Errors(spec) ==
    Flatten([i \in 1..3 |->
        LET section == required_sections[i]
        IN  IF ~HasKey(spec, section) \/ ~Truthy(Get(spec, section))
            THEN <<Msg("Missing required section: {}", <<section>>)>>
            ELSE <<>>], 3)

L1IdWarnings(spec) ==
    IF ~HasKey(spec, <<"f","u","n","c","t","i","o","n","a","l","_","r","e","q","u","i","r","e","m","e","n","t","s">>) THEN <<>>
    ELSE LET reqs == Items(Get(spec, <<"f","u","n","c","t","i","o","n","a","l","_","r","e","q","u","i","r","e","m","e","n","t","s">>))
         IN  Flatten([i \in 1..Len(reqs) |->
                 IF IsStr(reqs[i]) /\ ~StartsWith(reqs[i].s, <<"F","R","-">>)
                 THEN <<Msg("Requirement {} should have ID format 'FR-X'", <<IntStr(i)>>)>>
                 ELSE <<>>], Len(reqs))

L1EmptyWarnings(spec) ==
    Flatten([i \in 1..Len(spec.kv) |->
        IF IsList(spec.kv[i][2]) /\ Len(spec.kv[i][2].items) = 0
        THEN <<Msg("Empty section: {}", <<spec.kv[i][1]>>)>>
        ELSE <<>>], Len(spec.kv))

L1YamlWarnings(spec, suffix) ==
    IF suffix # <<".","y","a","m","l">> THEN <<>>
    ELSE (IF ~HasKey(spec, <<"a","p","i","V","e","r","s","i","o","n">>)
          THEN <<Msg("Missing apiVersion field", <<>>)>> ELSE <<>>)
         \o (IF ~HasKey(spec, <<"m","e","t","a","d","a","t","a">>)
             THEN <<Msg("Missing metadata section", <<>>)>> ELSE <<>>)

\* passed that also wants no warnings: a fault in passed
PassedClean(errors, warnings) == Len(errors) = 0 /\ Len(warnings) = 0

\* passed = len(errors) == 0
Passed(errors, warnings) == Len(errors) = 0

validate_level_1_syntax(spec, suffix) ==
    \* `section not in self.spec` and self.spec.items() need a mapping
    IF ~IsDict(spec) THEN Raise
    \* enumerate(self.spec['functional_requirements'])
    ELSE IF HasKey(spec, <<"f","u","n","c","t","i","o","n","a","l","_","r","e","q","u","i","r","e","m","e","n","t","s">>)
            /\ ~Iterable(Get(spec, <<"f","u","n","c","t","i","o","n","a","l","_","r","e","q","u","i","r","e","m","e","n","t","s">>)) THEN Raise
    ELSE LET errors == L1Errors(spec)
             warnings == L1IdWarnings(spec) \o L1EmptyWarnings(spec)
                         \o L1YamlWarnings(spec, suffix)
         IN  Ok(ValidationResult(
                 Passed(errors, warnings), "SYNTAX", errors, warnings,
                 IF warnings # <<>>
                 THEN <<Msg("Consider using the formal YAML template for better structure",
                            <<>>)>>
                 ELSE <<>>,
                 FALSE))

----------------------------------------------------------------------------
(* Level 2: semantic *)

\* the end of the longest run of characters of C that starts at i
RECURSIVE RunEnd(_, _, _)
RunEnd(s, i, C) ==
    IF i < Len(s) /\ s[i + 1] \in C THEN RunEnd(s, i + 1, C) ELSE i

\* re.findall(r'\b[a-z]+\b', s): the maximal runs of \w made of a-z only
FindLowerWords(s) ==
    {SubSeq(s, i, RunEnd(s, i, LowerSet)) :
        i \in {k \in 1..Len(s) :
                  /\ s[k] \in LowerSet
                  /\ (k = 1 \/ s[k - 1] \notin WordChars)
                  /\ LET e == RunEnd(s, k, LowerSet)
                     IN  e = Len(s) \/ s[e + 1] \notin WordChars}}

\* _extract_keywords: list(set(...)), used only under any()
_extract_keywords(stories) ==
    UNION {{w \in FindLowerWords(Lower(TextOf(stories[i]))) : Len(w) > 3} :
              i \in 1..Len(stories)}

contradictions ==
    << <<<<"m","u","s","t">>, <<"m","u","s","t"," ","n","o","t">>>>, <<<<"a","l","w","a","y","s">>, <<"n","e","v","e","r">>>>,
       <<<<"r","e","q","u","i","r","e","d">>, <<"o","p","t","i","o","n","a","l">>>>, <<<<"s","y","n","c","h","r","o","n","o","u","s">>, <<"a","s","y","n","c","h","r","o","n","o","u","s">>>> >>

_requirements_conflict(req1, req2) ==
    LET t1 == Lower(TextOf(req1))
        t2 == Lower(TextOf(req2))
        same_terms == <<<<"s","a","m","e">>, <<"i","d","e","n","t","i","c","a","l">>, <<"e","q","u","a","l">>>>
    IN  \E c \in 1..Len(contradictions) :
            /\ Contains(t1, contradictions[c][1])
            /\ Contains(t2, contradictions[c][2])
            /\ \E k \in 1..Len(same_terms) :
                   Contains(t1, same_terms[k]) /\ Contains(t2, same_terms[k])

\* re.findall(r'[A-Z]{2,}', s): the maximal runs of capitals, two or more long
FindAcronyms(s) ==
    {SubSeq(s, i, RunEnd(s, i, UpperSet)) :
        i \in {k \in 1..Len(s) :
                  /\ s[k] \in UpperSet
                  /\ (k = 1 \/ s[k - 1] \notin UpperSet)
                  /\ RunEnd(s, k, UpperSet) > k}}

\* re.findall(r'\w+' + tail, s): in each maximal run of \w, from its start to the end
\* of the last occurrence of tail that leaves at least one character before it
FindWordTail(s, tail) ==
    {SubSeq(s, i, CHOOSE e \in i..Len(s) :
                     /\ e <= RunEnd(s, i, WordChars)
                     /\ e - Len(tail) >= i
                     /\ MatchAt(s, e - Len(tail) + 1, tail)
                     /\ \A e2 \in (e + 1)..RunEnd(s, i, WordChars) :
                            ~(MatchAt(s, e2 - Len(tail) + 1, tail))) :
        i \in {k \in 1..Len(s) :
                  /\ s[k] \in WordChars
                  /\ (k = 1 \/ s[k - 1] \notin WordChars)
                  /\ \E e \in (k + Len(tail))..RunEnd(s, k, WordChars) :
                         MatchAt(s, e - Len(tail) + 1, tail)}}

\* _find_technical_terms before list(set(terms)): the set of the matched terms
_find_technical_terms(spec) ==
    LET spec_text == Str(spec)
    IN  FindAcronyms(spec_text) \cup FindWordTail(spec_text, <<"A","P","I">>)
        \cup FindWordTail(spec_text, <<"P","r","o","t","o","c","o","l">>)

\* term in defined_terms
InDefined(term, defined_terms) ==
    CASE defined_terms.t = "dict" -> HasKey(defined_terms, term)
      [] defined_terms.t = "list" -> InSeq(PyStr(term), defined_terms.items)
      [] defined_terms.t = "str" -> Contains(defined_terms.s, term)

L2TraceWarnings(spec) ==
    IF ~(HasKey(spec, <<"u","s","e","r","_","s","t","o","r","i","e","s">>) /\ HasKey(spec, <<"f","u","n","c","t","i","o","n","a","l","_","r","e","q","u","i","r","e","m","e","n","t","s">>))
    THEN <<>>
    ELSE LET story_keywords == _extract_keywords(Items(Get(spec, <<"u","s","e","r","_","s","t","o","r","i","e","s">>)))
             reqs == Items(Get(spec, <<"f","u","n","c","t","i","o","n","a","l","_","r","e","q","u","i","r","e","m","e","n","t","s">>))
         IN  Flatten([i \in 1..Len(reqs) |->
                 LET req_text == TextOf(reqs[i])
                 IN  IF ~(\E keyword \in story_keywords :
                              Contains(Lower(req_text), keyword))
                     THEN <<Msg("Requirement '{}...' may not trace to user stories",
                                <<Take(req_text, 50)>>)>>
                     ELSE <<>>], Len(reqs))

L2ConflictErrors(spec) ==
    LET requirements == Items(GetOr(spec, <<"f","u","n","c","t","i","o","n","a","l","_","r","e","q","u","i","r","e","m","e","n","t","s">>, PyList(<<>>)))
        n == Len(requirements)
    IN  Flatten([i \in 1..n |->
            Flatten([d \in 1..(n - i) |->
                IF _requirements_conflict(requirements[i], requirements[i + d])
                THEN <<Msg("Potential conflict between requirements {} and {}",
                           <<IntStr(i), IntStr(i + d)>>)>>
                ELSE <<>>], n - i)], n)

\* the technical terms, in the order technical_terms lists them, that are not defined
L2Undefined(spec, technical_terms) ==
    LET defined_terms == GetOr(spec, <<"d","e","f","i","n","i","t","i","o","n","s">>, PyDict(<<>>))
    IN  SeqFilterIdx([i \in 1..Len(technical_terms) |->
                         ~InDefined(technical_terms[i], defined_terms)],
                     1, Len(technical_terms))

L2Sensitive(spec) ==
    /\ ContainsAny(Lower(Str(spec)), <<<<"p","a","y","m","e","n","t">>, <<"p","a","s","s","w","o","r","d">>, <<"a","u","t","h">>, <<"c","r","e","d","i","t">>, <<"p","e","r","s","o","n","a","l">>, <<"p","r","i","v","a","t","e">>>>)
    /\ ~HasKey(spec, <<"s","e","c","u","r","i","t","y","_","r","e","q","u","i","r","e","m","e","n","t","s">>)

\* technical_terms: the list list(set(terms)) of this call
validate_level_2_semantic(spec, technical_terms) ==
    \* _extract_keywords(stories) and the loops over the requirements
    IF HasKey(spec, <<"u","s","e","r","_","s","t","o","r","i","e","s">>) /\ HasKey(spec, <<"f","u","n","c","t","i","o","n","a","l","_","r","e","q","u","i","r","e","m","e","n","t","s">>)
       /\ ~Iterable(Get(spec, <<"u","s","e","r","_","s","t","o","r","i","e","s">>)) THEN Raise
    \* enumerate(requirements), and requirements[i+1:] which a dict does not support
    ELSE IF HasKey(spec, <<"f","u","n","c","t","i","o","n","a","l","_","r","e","q","u","i","r","e","m","e","n","t","s">>)
            /\ LET fr == Get(spec, <<"f","u","n","c","t","i","o","n","a","l","_","r","e","q","u","i","r","e","m","e","n","t","s">>)
               IN  ~Iterable(fr) \/ (IsDict(fr) /\ fr.kv # <<>>) THEN Raise
    \* `term not in defined_terms`
    ELSE IF technical_terms # <<>>
            /\ ~Iterable(GetOr(spec, <<"d","e","f","i","n","i","t","i","o","n","s">>, PyDict(<<>>))) THEN Raise
    ELSE LET undefined == L2Undefined(spec, technical_terms)
             sensitive == L2Sensitive(spec)
             errors ==
                 L2ConflictErrors(spec)
                 \o (IF sensitive
                     THEN <<Msg("Spec involves sensitive operations but lacks security requirements",
                                <<>>)>>
                     ELSE <<>>)
             warnings ==
                 L2TraceWarnings(spec)
                 \o [i \in 1..Len(undefined) |->
                        Msg("Technical term '{}' is not defined",
                            <<technical_terms[undefined[i]]>>)]
             suggestions ==
                 [i \in 1..Len(undefined) |->
                     Msg("Add definition for '{}' in definitions section",
                         <<technical_terms[undefined[i]]>>)]
                 \o (IF sensitive
                     THEN <<Msg("Add security_requirements section with authentication, authorization, and encryption details",
                                <<>>)>>
                     ELSE <<>>)
         IN  Ok(ValidationResult(Passed(errors, warnings), "SEMANTIC", errors, warnings,
                                 suggestions, FALSE))

----------------------------------------------------------------------------
(* Level 3: coverage *)

\* more than this many functional requirements count towards complexity
ComplexReqs == 10
\* this many indicators make a spec complex
ComplexIndicators == 2

\* len(v)
PyLen(v) ==
    CASE v.t = "list" -> Len(v.items)
      [] v.t = "str" -> Len(v.s)
      [] v.t = "dict" -> Len(v.kv)

_is_complex_spec(spec) ==
    LET text == Lower(Str(spec))
        complexity_indicators ==
            <<Contains(text, <<"d","a","t","a","b","a","s","e">>),
              Contains(text, <<"m","i","g","r","a","t","i","o","n">>),
              Contains(text, <<"p","a","y","m","e","n","t">>),
              PyLen(GetOr(spec, <<"f","u","n","c","t","i","o","n","a","l","_","r","e","q","u","i","r","e","m","e","n","t","s">>, PyList(<<>>))) > ComplexReqs,
              Contains(text, <<"d","i","s","t","r","i","b","u","t","e","d">>)>>
    IN  Cardinality({i \in 1..Len(complexity_indicators) : complexity_indicators[i]})
            >= ComplexIndicators

L3StoryWarnings(spec) ==
    LET user_stories == Items(GetOr(spec, <<"u","s","e","r","_","s","t","o","r","i","e","s">>, PyList(<<>>)))
        acceptance_criteria == GetOr(spec, <<"a","c","c","e","p","t","a","n","c","e","_","c","r","i","t","e","r","i","a">>, PyList(<<>>))
    IN  Flatten([i \in 1..Len(user_stories) |->
            LET story_text == TextOf(user_stories[i])
                criteria == Items(acceptance_criteria)
            IN  IF ~(\E c \in 1..Len(criteria) :
                        Contains(Lower(Str(criteria[c])), Lower(story_text)))
                THEN <<Msg("User story may lack acceptance criteria: {}...",
                           <<Take(story_text, 50)>>)>>
                ELSE <<>>], Len(user_stories))

validate_level_3_coverage(spec) ==
    LET user_stories == GetOr(spec, <<"u","s","e","r","_","s","t","o","r","i","e","s">>, PyList(<<>>))
        acceptance_criteria == GetOr(spec, <<"a","c","c","e","p","t","a","n","c","e","_","c","r","i","t","e","r","i","a">>, PyList(<<>>))
    IN  \* `for story in user_stories`, `for criteria in acceptance_criteria`
        IF ~Iterable(user_stories) THEN Raise
        ELSE IF Items(user_stories) # <<>> /\ ~Iterable(acceptance_criteria) THEN Raise
        \* len(self.spec.get('functional_requirements', []))
        ELSE IF ~Iterable(GetOr(spec, <<"f","u","n","c","t","i","o","n","a","l","_","r","e","q","u","i","r","e","m","e","n","t","s">>, PyList(<<>>))) THEN Raise
        ELSE
        LET text == Lower(Str(spec))
            has_error_handling == ContainsAny(text, <<<<"e","r","r","o","r">>, <<"f","a","i","l">>, <<"i","n","v","a","l","i","d">>, <<"e","x","c","e","p","t","i","o","n">>, <<"t","i","m","e","o","u","t">>>>)
            no_performance ==
                /\ HasKey(spec, <<"n","o","n","_","f","u","n","c","t","i","o","n","a","l","_","r","e","q","u","i","r","e","m","e","n","t","s">>)
                /\ ~ContainsAny(Lower(Str(Get(spec, <<"n","o","n","_","f","u","n","c","t","i","o","n","a","l","_","r","e","q","u","i","r","e","m","e","n","t","s">>))),
                                <<<<"p","e","r","f","o","r","m","a","n","c","e">>, <<"r","e","s","p","o","n","s","e"," ","t","i","m","e">>, <<"l","a","t","e","n","c","y">>>>)
            has_resource_limits == ContainsAny(text, <<<<"m","e","m","o","r","y">>, <<"c","p","u">>, <<"d","i","s","k">>, <<"b","a","n","d","w","i","d","t","h">>, <<"c","o","n","n","e","c","t","i","o","n">>>>)
            no_rollback == _is_complex_spec(spec) /\ ~Contains(text, <<"r","o","l","l","b","a","c","k">>)
            errors ==
                (IF ~has_error_handling
                 THEN <<Msg("No error conditions or failure scenarios defined", <<>>)>>
                 ELSE <<>>)
                \o (IF no_rollback
                    THEN <<Msg("Complex spec lacks rollback procedures", <<>>)>>
                    ELSE <<>>)
            warnings ==
                L3StoryWarnings(spec)
                \o (IF no_performance
                    THEN <<Msg("No performance requirements specified", <<>>)>>
                    ELSE <<>>)
                \o (IF ~has_resource_limits
                    THEN <<Msg("No resource limits specified", <<>>)>>
                    ELSE <<>>)
            suggestions ==
                (IF ~has_error_handling
                 THEN <<Msg("Add error handling requirements for each major operation",
                            <<>>)>>
                 ELSE <<>>)
                \o (IF no_performance
                    THEN <<Msg("Add performance bounds (response time, throughput, etc.)",
                               <<>>)>>
                    ELSE <<>>)
                \o (IF ~has_resource_limits
                    THEN <<Msg("Define resource constraints and limits", <<>>)>>
                    ELSE <<>>)
                \o (IF no_rollback
                    THEN <<Msg("Add rollback and recovery procedures", <<>>)>>
                    ELSE <<>>)
        IN  Ok(ValidationResult(Passed(errors, warnings), "COVERAGE", errors, warnings,
                                suggestions, FALSE))

----------------------------------------------------------------------------
(* Level 4: cross-reference *)

\* [\w/]
PathChars == WordChars \cup {"/"}

\* where a match of (GET|POST|PUT|DELETE|PATCH)\s+/[\w/]+ with method m that starts
\* at i ends, or 0 when there is none
EndpointEnd(s, i, m) ==
    LET a == i + Len(m)
    IN  IF ~MatchAt(s, i, m) \/ a > Len(s) \/ s[a] \notin SpaceChars THEN 0
        ELSE LET b == RunEnd(s, a, SpaceChars) + 1
             IN  IF b + 1 > Len(s) \/ s[b] # "/" \/ s[b + 1] \notin PathChars THEN 0
                 ELSE RunEnd(s, b + 1, PathChars)

\* the methods of endpoint_pattern
http_methods == <<<<"G","E","T">>, <<"P","O","S","T">>, <<"P","U","T">>, <<"D","E","L","E","T","E">>, <<"P","A","T","C","H">>>>

EndpointAt(s, i) == \E m \in 1..Len(http_methods) : EndpointEnd(s, i, http_methods[m]) > 0

RECURSIVE FindEndpoints(_, _)
\* re.findall(endpoint_pattern, s) from position i on: one group in the pattern, so
\* findall returns the text of the group, the method, for each match from left to right
FindEndpoints(s, i) ==
    IF ~(\E k \in i..Len(s) : EndpointAt(s, k)) THEN <<>>
    ELSE LET k == CHOOSE k \in i..Len(s) :
                      EndpointAt(s, k) /\ \A j \in i..(k - 1) : ~EndpointAt(s, j)
             m == CHOOSE m \in 1..Len(http_methods) : EndpointEnd(s, k, http_methods[m]) > 0
         IN  <<http_methods[m]>> \o FindEndpoints(s, EndpointEnd(s, k, http_methods[m]) + 1)

_extract_apis(spec) == FindEndpoints(Str(spec), 1)

\* _load_existing_specs: the *.yaml files of the directory other than the spec, in the
\* order the directory lists them; open or yaml.safe_load raises for a bad file
_load_existing_specs(spec_files) ==
    IF \E i \in 1..Len(spec_files) : ~spec_files[i].readable THEN Raise
    ELSE Ok(List([i \in 1..Len(spec_files) |-> spec_files[i].yaml]))

\* other_spec.get('metadata', {}).get('name', 'unknown') can be evaluated
NameReadable(other_spec) ==
    /\ IsDict(other_spec)
    /\ IsDict(GetOr(other_spec, <<"m","e","t","a","d","a","t","a">>, PyDict(<<>>)))

SpecName(other_spec) ==
    GetOr(GetOr(other_spec, <<"m","e","t","a","d","a","t","a">>, PyDict(<<>>)), <<"n","a","m","e">>, PyStr(<<"u","n","k","n","o","w","n">>))

\* the pairs <<other spec, api>> for which a conflict is appended, in order
ConflictPairs(current_apis, existing_specs) ==
    Flatten([o \in 1..Len(existing_specs) |->
        LET other_apis == _extract_apis(existing_specs[o])
        IN  Flatten([a \in 1..Len(current_apis) |->
                IF InSeq(current_apis[a], other_apis)
                THEN << <<o, current_apis[a]>> >> ELSE <<>>],
                Len(current_apis))], Len(existing_specs))

\* conflicts.append({...}) for each pair: other_spec.get('metadata', {}).get('name',
\* 'unknown') raises when other_spec or its metadata is not a mapping
Conflicts(existing_specs, pairs) ==
    IF \E p \in 1..Len(pairs) : ~NameReadable(existing_specs[pairs[p][1]])
    THEN Raise
    ELSE Ok(List([p \in 1..Len(pairs) |->
                [spec |-> Str(SpecName(existing_specs[pairs[p][1]])),
                 issue |-> pairs[p][2]]]))

_check_spec_conflicts(spec, existing_specs) ==
    Conflicts(existing_specs, ConflictPairs(_extract_apis(spec), existing_specs))

_is_update_to_existing(spec, name) ==
    LET update_indicators ==
            <<Contains(Lower(name), <<"u","p","d","a","t","e">>),
              Contains(Lower(name), <<"v","2">>),
              Contains(Lower(Str(spec)), <<"m","i","g","r","a","t","i","o","n">>),
              Contains(Lower(Str(spec)), <<"d","e","p","r","e","c","a","t","e">>)>>
    IN  \E i \in 1..4 : update_indicators[i]

\* a level 4 that is always ready: a fault in ready_for_adversarial
ReadyAlways(passed) == TRUE

\* passed of level 4 is also its ready_for_adversarial
ReadyForAdversarial(passed) == passed

\* the body of validate_level_4_cross_reference once conflicts is known
CrossReferenceResult(spec, name, conflicts) ==
    LET undefined_interfaces ==
            /\ HasKey(spec, <<"i","n","t","e","r","f","a","c","e","s">>) \/ Contains(Lower(Str(spec)), <<"a","p","i">>)
            /\ ~HasKey(spec, <<"a","p","i","_","c","o","n","t","r","a","c","t","s">>)
            /\ ~HasKey(spec, <<"i","n","t","e","r","f","a","c","e","_","d","e","f","i","n","i","t","i","o","n","s">>)
        no_dependencies == ~HasKey(spec, <<"d","e","p","e","n","d","e","n","c","i","e","s">>)
        no_compatibility ==
            /\ _is_update_to_existing(spec, name)
            /\ ~HasKey(spec, <<"b","a","c","k","w","a","r","d","s","_","c","o","m","p","a","t","i","b","i","l","i","t","y">>)
            /\ ~HasKey(spec, <<"b","r","e","a","k","i","n","g","_","c","h","a","n","g","e","s">>)
        errors ==
            [c \in 1..Len(conflicts) |->
                Msg("Conflict with {}: Duplicate API endpoint: {}",
                    <<conflicts[c].spec, conflicts[c].issue>>)]
            \o (IF undefined_interfaces
                THEN <<Msg("Spec mentions interfaces/APIs but lacks proper definitions",
                           <<>>)>>
                ELSE <<>>)
            \o (IF no_compatibility
                THEN <<Msg("Update to existing system lacks backwards compatibility analysis",
                           <<>>)>>
                ELSE <<>>)
        warnings ==
            IF no_dependencies
            THEN <<Msg("No explicit dependencies stated", <<>>)>>
            ELSE <<>>
        suggestions ==
            (IF undefined_interfaces
             THEN <<Msg("Add api_contracts or interface_definitions section", <<>>)>>
             ELSE <<>>)
            \o (IF no_dependencies
                THEN <<Msg("Add dependencies section listing all external systems and libraries",
                           <<>>)>>
                ELSE <<>>)
            \o (IF no_compatibility
                THEN <<Msg("Add backwards_compatibility section or explicitly list breaking_changes",
                           <<>>)>>
                ELSE <<>>)
        passed == Passed(errors, warnings)
    IN  ValidationResult(passed, "CROSS_REFERENCE", errors, warnings, suggestions,
                         ReadyForAdversarial(passed))

\* spec_files: the sibling files in the order of this directory listing
validate_level_4_cross_reference(spec, name, spec_files) ==
    LET loaded == _load_existing_specs(spec_files)
    IN  IF loaded.raised THEN Raise
        ELSE LET found == _check_spec_conflicts(spec, loaded.value)
             IN  IF found.raised THEN Raise
                 ELSE Ok(CrossReferenceResult(spec, name, found.value))

----------------------------------------------------------------------------
(* AdversarialFinding; an Optional[str] field is None or a text *)

None == <<>>
Some(fmt) == <<Msg(fmt, <<>>)>>

AdversarialFinding(adversary, severity, issue, details, attack_vector, misinterpretation, suggested_defense, location) ==
    [adversary |-> adversary, severity |-> severity, issue |-> issue,
     details |-> details, attack_vector |-> attack_vector,
     misinterpretation |-> misinterpretation,
     suggested_defense |-> suggested_defense, location |-> location]

\* a finding with an attack vector (the security, performance and compliance checks)
Attack(adversary, severity, issue, details, attack_vector, suggested_defense) ==
    AdversarialFinding(adversary, severity, Msg(issue, <<>>), Msg(details, <<>>),
                       Some(attack_vector), None, Some(suggested_defense), None)

\* a finding with a misinterpretation (the ambiguity and implementation checks)
Misread(adversary, severity, issue, details, misinterpretation, suggested_defense) ==
    AdversarialFinding(adversary, severity, issue, details,
                       None, Some(misinterpretation), Some(suggested_defense), None)

When(cond, findings) == IF cond THEN findings ELSE <<>>

----------------------------------------------------------------------------
(* SecurityAdversary *)

Security_check_authentication(spec) ==
    LET spec_text == Lower(Str(spec))
        has_user_actions == ContainsAny(spec_text, <<<<"c","r","e","a","t","e">>, <<"u","p","d","a","t","e">>, <<"d","e","l","e","t","e">>, <<"m","o","d","i","f","y">>, <<"s","u","b","m","i","t">>, <<"a","p","p","r","o","v","e">>>>)
        has_auth == ContainsAny(spec_text, <<<<"a","u","t","h","e","n","t","i","c","a","t","e">>, <<"a","u","t","h","e","n","t","i","c","a","t","i","o","n">>, <<"l","o","g","i","n">>, <<"j","w","t">>, <<"o","a","u","t","h">>, <<"t","o","k","e","n">>>>)
    IN  When(has_user_actions /\ ~has_auth,
             <<Attack("Security Adversary", "CRITICAL", "Missing authentication requirements",
                      "Spec defines user actions but doesn't specify authentication",
                      "Unauthenticated access to user functions",
                      "Add explicit authentication requirements for all user actions")>>)
        \o When(has_auth /\ ~Contains(spec_text, <<"s","e","s","s","i","o","n">>)
                    /\ ~Contains(spec_text, <<"t","o","k","e","n">>),
                <<Attack("Security Adversary", "HIGH", "No session management specified",
                         "Authentication mentioned but no session/token management",
                         "Session hijacking, token replay attacks",
                         "Specify session timeout, token refresh, and revocation mechanisms")>>)

Security_check_authorization(spec) ==
    LET spec_text == Lower(Str(spec))
        has_roles == ContainsAny(spec_text, <<<<"a","d","m","i","n">>, <<"u","s","e","r">>, <<"m","a","n","a","g","e","r">>, <<"o","w","n","e","r">>, <<"m","e","m","b","e","r">>>>)
        has_authz == ContainsAny(spec_text, <<<<"a","u","t","h","o","r","i","z","a","t","i","o","n">>, <<"p","e","r","m","i","s","s","i","o","n">>, <<"a","c","c","e","s","s"," ","c","o","n","t","r","o","l">>, <<"r","b","a","c">>, <<"a","c","l">>>>)
    IN  When(has_roles /\ ~has_authz,
             <<Attack("Security Adversary", "HIGH", "Missing authorization requirements",
                      "Spec mentions roles but no authorization checks",
                      "Privilege escalation, unauthorized access",
                      "Add explicit authorization checks for all role-based operations")>>)

Security_check_data_protection(spec) ==
    LET spec_text == Lower(Str(spec))
        has_pii == ContainsAny(spec_text, <<<<"e","m","a","i","l">>, <<"p","h","o","n","e">>, <<"a","d","d","r","e","s","s">>, <<"s","s","n">>, <<"s","o","c","i","a","l"," ","s","e","c","u","r","i","t","y">>, <<"c","r","e","d","i","t"," ","c","a","r","d">>, <<"p","a","y","m","e","n","t">>, <<"p","a","s","s","w","o","r","d">>, <<"d","a","t","e"," ","o","f"," ","b","i","r","t","h">>>>)
        has_encryption == ContainsAny(spec_text, <<<<"e","n","c","r","y","p","t">>, <<"e","n","c","r","y","p","t","i","o","n">>, <<"h","a","s","h","e","d">>, <<"b","c","r","y","p","t">>, <<"a","e","s">>>>)
    IN  When(has_pii /\ ~has_encryption,
             <<Attack("Security Adversary", "CRITICAL", "Unprotected sensitive data",
                      "Spec handles PII but doesn't specify encryption",
                      "Data breach, compliance violations",
                      "Require encryption at rest and in transit for all PII")>>)
        \o When(Contains(spec_text, <<"l","o","g">>) /\ has_pii
                    /\ ~Contains(spec_text, <<"r","e","d","a","c","t">>) /\ ~Contains(spec_text, <<"m","a","s","k">>),
                <<Attack("Security Adversary", "HIGH", "Potential sensitive data in logs",
                         "Logging mentioned with PII but no redaction specified",
                         "Information disclosure through logs",
                         "Specify PII redaction/masking in all logs")>>)

\* the command check suppressed by a protection term: the fault a mitigated document
\* would show
Security_check_injection_risks_mitigated(spec) ==
    LET spec_text == Lower(Str(spec))
        has_db == ContainsAny(spec_text, <<<<"d","a","t","a","b","a","s","e">>, <<"s","q","l">>, <<"q","u","e","r","y">>, <<"s","e","l","e","c","t">>, <<"i","n","s","e","r","t">>, <<"u","p","d","a","t","e">>, <<"d","e","l","e","t","e">>>>)
        has_protection == ContainsAny(spec_text, <<<<"p","a","r","a","m","e","t","e","r","i","z","e","d">>, <<"p","r","e","p","a","r","e","d"," ","s","t","a","t","e","m","e","n","t">>, <<"s","a","n","i","t","i","z","e">>, <<"e","s","c","a","p","e">>>>)
    IN  When(has_db /\ ~has_protection,
             <<Attack("Security Adversary", "HIGH", "SQL injection risk",
                      "Database operations without parameterization requirements",
                      "SQL injection attacks",
                      "Require parameterized queries for all database operations")>>)
        \o When(ContainsAny(spec_text, <<<<"e","x","e","c","u","t","e">>, <<"s","h","e","l","l">>, <<"c","o","m","m","a","n","d">>, <<"s","y","s","t","e","m">>, <<"e","x","e","c">>>>)
                    /\ ~has_protection,
                <<Attack("Security Adversary", "CRITICAL", "Command injection risk",
                         "Spec involves command execution",
                         "Remote code execution",
                         "Avoid shell commands; if required, specify strict input validation")>>)

Security_check_injection_risks(spec) ==
    LET spec_text == Lower(Str(spec))
        has_db == ContainsAny(spec_text, <<<<"d","a","t","a","b","a","s","e">>, <<"s","q","l">>, <<"q","u","e","r","y">>, <<"s","e","l","e","c","t">>, <<"i","n","s","e","r","t">>, <<"u","p","d","a","t","e">>, <<"d","e","l","e","t","e">>>>)
        has_protection == ContainsAny(spec_text, <<<<"p","a","r","a","m","e","t","e","r","i","z","e","d">>, <<"p","r","e","p","a","r","e","d"," ","s","t","a","t","e","m","e","n","t">>, <<"s","a","n","i","t","i","z","e">>, <<"e","s","c","a","p","e">>>>)
    IN  When(has_db /\ ~has_protection,
             <<Attack("Security Adversary", "HIGH", "SQL injection risk",
                      "Database operations without parameterization requirements",
                      "SQL injection attacks",
                      "Require parameterized queries for all database operations")>>)
        \o When(ContainsAny(spec_text, <<<<"e","x","e","c","u","t","e">>, <<"s","h","e","l","l">>, <<"c","o","m","m","a","n","d">>, <<"s","y","s","t","e","m">>, <<"e","x","e","c">>>>),
                <<Attack("Security Adversary", "CRITICAL", "Command injection risk",
                         "Spec involves command execution",
                         "Remote code execution",
                         "Avoid shell commands; if required, specify strict input validation")>>)

Security_check_validation(spec) ==
    LET spec_text == Lower(Str(spec))
        has_input == ContainsAny(spec_text, <<<<"i","n","p","u","t">>, <<"f","o","r","m">>, <<"u","p","l","o","a","d">>, <<"p","a","r","a","m","e","t","e","r">>, <<"r","e","q","u","e","s","t">>>>)
        has_validation == ContainsAny(spec_text, <<<<"v","a","l","i","d","a","t","e">>, <<"v","a","l","i","d","a","t","i","o","n">>, <<"s","a","n","i","t","i","z","e">>, <<"w","h","i","t","e","l","i","s","t">>, <<"r","e","g","e","x">>>>)
    IN  When(has_input /\ ~has_validation,
             <<Attack("Security Adversary", "HIGH", "Missing input validation",
                      "User input accepted without validation requirements",
                      "XSS, injection attacks, buffer overflow",
                      "Specify validation rules for all user inputs")>>)

\* SecurityAdversary.attack_spec: self.findings after the five checks
Security_attack_spec(spec) ==
    Ok(Security_check_authentication(spec)
       \o Security_check_authorization(spec)
       \o Security_check_data_protection(spec)
       \o Security_check_injection_risks(spec)
       \o Security_check_validation(spec))

----------------------------------------------------------------------------
(* AmbiguityAdversary *)

\* self.vague_terms, in insertion order: <<term, suggestion>>
vague_terms ==
    << <<<<"s","h","o","u","l","d">>, "Use 'MUST' for requirements">>,
       <<<<"m","a","y">>, "Use 'MUST' or 'MUST NOT' for clarity">>,
       <<<<"m","i","g","h","t">>, "Be explicit about optionality">>,
       <<<<"c","o","u","l","d">>, "Use 'MUST' or 'MAY' per RFC 2119">>,
       <<<<"c","o","n","s","i","d","e","r">>, "Specify exact requirements">>,
       <<<<"a","p","p","r","o","p","r","i","a","t","e">>, "Define what is appropriate">>,
       <<<<"r","e","a","s","o","n","a","b","l","e">>, "Specify exact bounds">>,
       <<<<"t","i","m","e","l","y">>, "Specify exact time limits">>,
       <<<<"e","f","f","i","c","i","e","n","t">>, "Define performance metrics">>,
       <<<<"s","e","c","u","r","e">>, "Specify security requirements">>,
       <<<<"u","s","e","r","-","f","r","i","e","n","d","l","y">>, "Define specific UX requirements">>,
       <<<<"s","c","a","l","a","b","l","e">>, "Specify scalability metrics">>,
       <<<<"r","o","b","u","s","t">>, "Define failure scenarios">>,
       <<<<"f","l","e","x","i","b","l","e">>, "Specify variation points">> >>

\* the misinterpretations table of _generate_misinterpretation
misinterpretations ==
    << <<<<"s","h","o","u","l","d">>, "Interpreted as optional - skipping this requirement">>,
       <<<<"m","a","y">>, "Interpreted as 'will not' - opposite of intended">>,
       <<<<"a","p","p","r","o","p","r","i","a","t","e">>, "Interpreted as 'minimal' - lowest effort implementation">>,
       <<<<"r","e","a","s","o","n","a","b","l","e">>, "Interpreted as 'unlimited' - no bounds applied">>,
       <<<<"s","e","c","u","r","e">>, "Interpreted as 'basic auth only' - minimal security">> >>

_generate_misinterpretation(requirement, vague_term) ==
    IF \E i \in 1..Len(misinterpretations) : misinterpretations[i][1] = vague_term
    THEN Msg(misinterpretations[CHOOSE i \in 1..Len(misinterpretations) :
                                    misinterpretations[i][1] = vague_term][2], <<>>)
    ELSE Msg("Interpreted '{}' in the most permissive way possible", <<vague_term>>)

\* a scan that leaves out the non-functional requirements: the fault a document with
\* both sections would show
CollectedFunctionalOnly(spec) ==
    IF HasKey(spec, <<"f","u","n","c","t","i","o","n","a","l","_","r","e","q","u","i","r","e","m","e","n","t","s">>)
    THEN Items(Get(spec, <<"f","u","n","c","t","i","o","n","a","l","_","r","e","q","u","i","r","e","m","e","n","t","s">>)) ELSE <<>>

\* the requirements list of _check_requirements
CollectedRequirements(spec) ==
    (IF HasKey(spec, <<"f","u","n","c","t","i","o","n","a","l","_","r","e","q","u","i","r","e","m","e","n","t","s">>)
     THEN Items(Get(spec, <<"f","u","n","c","t","i","o","n","a","l","_","r","e","q","u","i","r","e","m","e","n","t","s">>)) ELSE <<>>)
    \o (IF HasKey(spec, <<"n","o","n","_","f","u","n","c","t","i","o","n","a","l","_","r","e","q","u","i","r","e","m","e","n","t","s">>)
        THEN Items(Get(spec, <<"n","o","n","_","f","u","n","c","t","i","o","n","a","l","_","r","e","q","u","i","r","e","m","e","n","t","s">>)) ELSE <<>>)

\* the finding of _check_requirements for one requirement and one vague term
VagueFinding(req_text, term, suggestion) ==
    AdversarialFinding("Ambiguity Adversary", "MEDIUM",
        Msg("Ambiguous term '{}' in requirement", <<term>>),
        Msg("Requirement: {}...", <<Take(req_text, 100)>>),
        None,
        <<_generate_misinterpretation(req_text, term)>>,
        Some(suggestion),
        <<Msg("requirement: {}", <<Take(req_text, 50)>>)>>)

Ambiguity_check_requirements(spec) ==
    LET requirements == CollectedRequirements(spec)
    IN  Flatten([r \in 1..Len(requirements) |->
            LET req_text == TextOf(requirements[r])
                req_lower == Lower(req_text)
            IN  Flatten([t \in 1..Len(vague_terms) |->
                    When(Contains(req_lower, vague_terms[t][1]),
                         <<VagueFinding(req_text, vague_terms[t][1], vague_terms[t][2])>>)],
                    Len(vague_terms))], Len(requirements))

\* re.search(r'\b' + w + r'\b', s)
WordAt(s, w) ==
    \E i \in 1..(Len(s) - Len(w) + 1) :
        /\ MatchAt(s, i, w)
        /\ (i = 1 \/ s[i - 1] \notin WordChars)
        /\ (i + Len(w) - 1 = Len(s) \/ s[i + Len(w)] \notin WordChars)

Ambiguity_check_boundaries(spec) ==
    LET spec_text == Str(spec)
        numeric_words == <<<<"n","u","m","b","e","r">>, <<"c","o","u","n","t">>, <<"s","i","z","e">>, <<"l","e","n","g","t","h">>, <<"a","m","o","u","n","t">>, <<"q","u","a","n","t","i","t","y">>>>
        time_terms == <<<<"s","o","o","n">>, <<"q","u","i","c","k","l","y">>, <<"e","v","e","n","t","u","a","l","l","y">>, <<"p","e","r","i","o","d","i","c","a","l","l","y">>, <<"r","e","g","u","l","a","r","l","y">>>>
        \* re.search(numeric_pattern, spec_text, re.IGNORECASE)
        numeric ==
            \E w \in 1..Len(numeric_words) : WordAt(Lower(spec_text), numeric_words[w])
        \* re.search(r'(min|max|between|less than|greater than|\d+)', spec_text)
        bounded ==
            \/ ContainsAny(spec_text, <<<<"m","i","n">>, <<"m","a","x">>, <<"b","e","t","w","e","e","n">>, <<"l","e","s","s"," ","t","h","a","n">>, <<"g","r","e","a","t","e","r"," ","t","h","a","n">>>>)
            \/ \E i \in 1..Len(spec_text) : spec_text[i] \in DigitSet
    IN  When(numeric /\ ~bounded,
             <<Misread("Ambiguity Adversary", "HIGH",
                       Msg("Unbounded numeric values", <<>>),
                       Msg("Numeric values mentioned without limits", <<>>),
                       "Could accept 0, negative, or extremely large values",
                       "Specify min/max bounds for all numeric inputs")>>)
        \o Flatten([t \in 1..Len(time_terms) |->
               When(Contains(Lower(spec_text), time_terms[t]),
                    <<Misread("Ambiguity Adversary", "MEDIUM",
                              Msg("Vague time reference: '{}'", <<time_terms[t]>>),
                              Msg("Time constraint is not specific", <<>>),
                              "Could mean milliseconds or days",
                              "Specify exact time limits (e.g., 'within 5 seconds')")>>)],
               Len(time_terms))

Ambiguity_check_error_handling(spec) ==
    LET spec_text == Lower(Str(spec))
        error_terms == <<<<"h","a","n","d","l","e"," ","a","p","p","r","o","p","r","i","a","t","e","l","y">>, <<"d","e","a","l"," ","w","i","t","h"," ","e","r","r","o","r","s">>, <<"m","a","n","a","g","e"," ","e","x","c","e","p","t","i","o","n","s">>>>
    IN  When(Contains(spec_text, <<"e","r","r","o","r">>) \/ Contains(spec_text, <<"e","x","c","e","p","t","i","o","n">>),
             Flatten([t \in 1..Len(error_terms) |->
                 When(Contains(spec_text, error_terms[t]),
                      <<Misread("Ambiguity Adversary", "MEDIUM",
                                Msg("Vague error handling", <<>>),
                                Msg("Error handling specified as '{}'", <<error_terms[t]>>),
                                "Could ignore errors or crash application",
                                "Specify exact error handling: log, retry, fallback, etc.")>>)],
                 Len(error_terms)))

\* AmbiguityAdversary.attack_spec
Ambiguity_attack_spec(spec) ==
    \* `'functional_requirements' in spec` needs a container; requirements.extend(...)
    \* needs an iterable
    IF ~Iterable(spec) THEN Raise
    ELSE IF IsDict(spec)
            /\ \/ HasKey(spec, <<"f","u","n","c","t","i","o","n","a","l","_","r","e","q","u","i","r","e","m","e","n","t","s">>)
                  /\ ~Iterable(Get(spec, <<"f","u","n","c","t","i","o","n","a","l","_","r","e","q","u","i","r","e","m","e","n","t","s">>))
               \/ HasKey(spec, <<"n","o","n","_","f","u","n","c","t","i","o","n","a","l","_","r","e","q","u","i","r","e","m","e","n","t","s">>)
                  /\ ~Iterable(Get(spec, <<"n","o","n","_","f","u","n","c","t","i","o","n","a","l","_","r","e","q","u","i","r","e","m","e","n","t","s">>))
         THEN Raise
    ELSE Ok((IF IsDict(spec) THEN Ambiguity_check_requirements(spec) ELSE <<>>)
            \o Ambiguity_check_boundaries(spec)
            \o Ambiguity_check_error_handling(spec))

----------------------------------------------------------------------------
(* ImplementationAdversary *)

Plain(adversary, severity, issue, details, misinterpretation, suggested_defense) ==
    Misread(adversary, severity, Msg(issue, <<>>), Msg(details, <<>>),
            misinterpretation, suggested_defense)

Implementation_check_edge_cases(spec) ==
    LET spec_text == Lower(Str(spec))
    IN  When((Contains(spec_text, <<"c","r","e","a","t","e">>) \/ Contains(spec_text, <<"a","d","d">>))
                 /\ ~Contains(spec_text, <<"d","u","p","l","i","c","a","t","e">>),
             <<Plain("Implementation Adversary", "MEDIUM", "Unspecified duplicate handling",
                     "Creation operation without duplicate policy",
                     "Allow duplicate creation, causing data inconsistency",
                     "Specify behavior for duplicate creation attempts")>>)
        \o When((Contains(spec_text, <<"d","e","l","e","t","e">>) \/ Contains(spec_text, <<"r","e","m","o","v","e">>))
                    /\ ~Contains(spec_text, <<"n","o","t"," ","f","o","u","n","d">>)
                    /\ ~Contains(spec_text, <<"n","o","t"," ","e","x","i","s","t">>),
                <<Plain("Implementation Adversary", "MEDIUM", "Unspecified missing resource handling",
                        "Delete operation without 'not found' behavior",
                        "Silent failure or crash on missing resource",
                        "Specify behavior when deleting non-existent items")>>)
        \o When((Contains(spec_text, <<"l","i","s","t">>) \/ Contains(spec_text, <<"q","u","e","r","y">>))
                    /\ ~Contains(spec_text, <<"e","m","p","t","y">>)
                    /\ ~Contains(spec_text, <<"n","o"," ","r","e","s","u","l","t","s">>),
                <<Plain("Implementation Adversary", "LOW", "Unspecified empty result handling",
                        "Query operation without empty result specification",
                        "Return null instead of empty array",
                        "Specify response format for empty results")>>)

Implementation_check_race_conditions(spec) ==
    LET spec_text == Lower(Str(spec))
        has_concurrency == ContainsAny(spec_text, <<<<"c","o","n","c","u","r","r","e","n","t">>, <<"p","a","r","a","l","l","e","l">>, <<"s","i","m","u","l","t","a","n","e","o","u","s">>, <<"m","u","l","t","i","p","l","e"," ","u","s","e","r","s">>>>)
        has_sync == ContainsAny(spec_text, <<<<"l","o","c","k">>, <<"m","u","t","e","x">>, <<"s","y","n","c","h","r","o","n","i","z","e">>, <<"a","t","o","m","i","c">>, <<"t","r","a","n","s","a","c","t","i","o","n">>>>)
    IN  When(has_concurrency /\ ~has_sync,
             <<Plain("Implementation Adversary", "HIGH", "Race condition risk",
                     "Concurrent operations without synchronization",
                     "Implement without thread safety",
                     "Specify locking/transaction requirements")>>)
        \o When(Contains(spec_text, <<"u","p","d","a","t","e">>)
                    /\ (Contains(spec_text, <<"b","a","s","e","d"," ","o","n">>) \/ Contains(spec_text, <<"i","f">>))
                    /\ ~Contains(spec_text, <<"a","t","o","m","i","c">>)
                    /\ ~Contains(spec_text, <<"t","r","a","n","s","a","c","t","i","o","n">>),
                <<Plain("Implementation Adversary", "HIGH", "Non-atomic read-modify-write",
                        "Conditional update without atomicity requirement",
                        "Implement with separate read and write operations",
                        "Require atomic compare-and-swap or transactions")>>)

Implementation_check_state_management(spec) ==
    LET spec_text == Lower(Str(spec))
        has_state == ContainsAny(spec_text, <<<<"s","t","a","t","u","s">>, <<"s","t","a","t","e">>, <<"w","o","r","k","f","l","o","w">>, <<"l","i","f","e","c","y","c","l","e">>>>)
        has_transitions == ContainsAny(spec_text, <<<<"t","r","a","n","s","i","t","i","o","n">>, <<"v","a","l","i","d"," ","s","t","a","t","e","s">>, <<"s","t","a","t","e"," ","m","a","c","h","i","n","e">>, <<"a","l","l","o","w","e","d">>>>)
    IN  When(has_state /\ ~has_transitions,
             <<Plain("Implementation Adversary", "MEDIUM", "Undefined state transitions",
                     "Stateful system without transition rules",
                     "Allow any state transition",
                     "Define valid states and allowed transitions")>>)

Implementation_check_error_recovery(spec) ==
    LET spec_text == Lower(Str(spec))
    IN  When((Contains(spec_text, <<"e","r","r","o","r">>) \/ Contains(spec_text, <<"f","a","i","l">>))
                 /\ ~ContainsAny(spec_text, <<<<"r","e","t","r","y">>, <<"r","o","l","l","b","a","c","k">>, <<"r","e","c","o","v","e","r">>, <<"f","a","l","l","b","a","c","k">>, <<"c","o","m","p","e","n","s","a","t","e">>>>),
             <<Plain("Implementation Adversary", "HIGH", "No error recovery specified",
                     "Error conditions without recovery strategy",
                     "Crash or leave system in inconsistent state",
                     "Specify recovery actions for each error scenario")>>)

\* ImplementationAdversary.attack_spec
Implementation_attack_spec(spec) ==
    Ok(Implementation_check_edge_cases(spec)
       \o Implementation_check_race_conditions(spec)
       \o Implementation_check_state_management(spec)
       \o Implementation_check_error_recovery(spec))

----------------------------------------------------------------------------
(* PerformanceAdversary *)

Performance_check_unbounded_operations(spec) ==
    LET spec_text == Lower(Str(spec))
    IN  When((Contains(spec_text, <<"l","i","s","t">>) \/ Contains(spec_text, <<"s","e","a","r","c","h">>)
                  \/ Contains(spec_text, <<"q","u","e","r","y">>))
                 /\ ~Contains(spec_text, <<"l","i","m","i","t">>) /\ ~Contains(spec_text, <<"p","a","g","e">>)
                 /\ ~Contains(spec_text, <<"p","a","g","i","n","a","t","i","o","n">>),
             <<Attack("Performance Adversary", "HIGH", "Unbounded query results",
                      "List/search operation without result limits",
                      "Memory exhaustion with large result sets",
                      "Add pagination or result limit requirements")>>)
        \o When((Contains(spec_text, <<"f","o","r"," ","e","a","c","h">>) \/ Contains(spec_text, <<"i","t","e","r","a","t","e">>)
                     \/ Contains(spec_text, <<"p","r","o","c","e","s","s"," ","a","l","l">>))
                    /\ ~Contains(spec_text, <<"t","i","m","e","o","u","t">>) /\ ~Contains(spec_text, <<"l","i","m","i","t">>),
                <<Attack("Performance Adversary", "MEDIUM", "Unbounded iteration",
                         "Iteration without limits or timeout",
                         "CPU exhaustion with large datasets",
                         "Add iteration limits or processing timeouts")>>)

Performance_check_resource_limits(spec) ==
    LET spec_text == Lower(Str(spec))
    IN  When((Contains(spec_text, <<"u","p","l","o","a","d">>) \/ Contains(spec_text, <<"f","i","l","e">>))
                 /\ ~Contains(spec_text, <<"s","i","z","e"," ","l","i","m","i","t">>)
                 /\ ~Contains(spec_text, <<"m","a","x"," ","s","i","z","e">>),
             <<Attack("Performance Adversary", "HIGH", "Unlimited file uploads",
                      "File handling without size restrictions",
                      "Disk space exhaustion",
                      "Specify maximum file size and total storage limits")>>)
        \o When((Contains(spec_text, <<"a","p","i">>) \/ Contains(spec_text, <<"e","n","d","p","o","i","n","t">>))
                    /\ ~Contains(spec_text, <<"r","a","t","e"," ","l","i","m","i","t">>)
                    /\ ~Contains(spec_text, <<"t","h","r","o","t","t","l","e">>),
                <<Attack("Performance Adversary", "MEDIUM", "No rate limiting specified",
                         "API endpoints without rate limits",
                         "DoS through request flooding",
                         "Add rate limiting requirements per user/IP")>>)

Performance_check_caching_needs(spec) ==
    LET spec_text == Lower(Str(spec))
        has_expensive == ContainsAny(spec_text, <<<<"c","a","l","c","u","l","a","t","e">>, <<"c","o","m","p","u","t","e">>, <<"a","g","g","r","e","g","a","t","e">>, <<"r","e","p","o","r","t">>, <<"a","n","a","l","y","t","i","c","s">>>>)
    IN  When(has_expensive /\ ~Contains(spec_text, <<"c","a","c","h","e">>),
             <<Attack("Performance Adversary", "MEDIUM", "Expensive operations without caching",
                      "Computational operations without cache strategy",
                      "Performance degradation under load",
                      "Specify caching requirements for expensive operations")>>)

Performance_check_pagination(spec) ==
    LET spec_text == Lower(Str(spec))
    IN  When((Contains(spec_text, <<"p","a","g","i","n","a","t","i","o","n">>) \/ Contains(spec_text, <<"p","a","g","e">>))
                 /\ Contains(spec_text, <<"o","f","f","s","e","t">>) /\ Contains(spec_text, <<"l","a","r","g","e">>),
             <<Attack("Performance Adversary", "LOW", "Offset pagination for large datasets",
                      "Offset-based pagination becomes slow with large offsets",
                      "Performance degradation on deep pages",
                      "Consider cursor-based pagination for large datasets")>>)

\* PerformanceAdversary.attack_spec
Performance_attack_spec(spec) ==
    Ok(Performance_check_unbounded_operations(spec)
       \o Performance_check_resource_limits(spec)
       \o Performance_check_caching_needs(spec)
       \o Performance_check_pagination(spec))

----------------------------------------------------------------------------
(* ComplianceAdversary *)

Compliance_check_data_retention(spec) ==
    LET spec_text == Lower(Str(spec))
    IN  When(ContainsAny(spec_text, <<<<"p","e","r","s","o","n","a","l"," ","d","a","t","a">>, <<"e","u">>, <<"e","u","r","o","p","e">>, <<"p","r","i","v","a","c","y">>, <<"c","o","n","s","e","n","t">>, <<"r","i","g","h","t"," ","t","o"," ","b","e"," ","f","o","r","g","o","t","t","e","n">>, <<"c","r","e","d","i","t"," ","c","a","r","d">>, <<"p","a","y","m","e","n","t"," ","c","a","r","d">>, <<"c","a","r","d"," ","n","u","m","b","e","r">>, <<"c","v","v">>, <<"p","a","y","m","e","n","t">>, <<"h","e","a","l","t","h">>, <<"m","e","d","i","c","a","l">>, <<"p","a","t","i","e","n","t">>, <<"d","i","a","g","n","o","s","i","s">>, <<"p","r","e","s","c","r","i","p","t","i","o","n">>, <<"s","e","c","u","r","i","t","y">>, <<"a","v","a","i","l","a","b","i","l","i","t","y">>, <<"c","o","n","f","i","d","e","n","t","i","a","l","i","t","y">>, <<"p","r","i","v","a","c","y">>, <<"c","a","l","i","f","o","r","n","i","a">>, <<"p","e","r","s","o","n","a","l"," ","i","n","f","o","r","m","a","t","i","o","n">>, <<"c","o","n","s","u","m","e","r"," ","p","r","i","v","a","c","y">>>>)
                 /\ ~Contains(spec_text, <<"r","e","t","e","n","t","i","o","n">>) /\ ~Contains(spec_text, <<"d","e","l","e","t","e">>),
             <<Attack("Compliance Adversary", "HIGH", "Missing data retention policy",
                      "Personal data handled without retention/deletion policy",
                      "Compliance violations, legal liability",
                      "Specify data retention periods and deletion procedures")>>)

Compliance_check_audit_requirements(spec) ==
    LET spec_text == Lower(Str(spec))
        has_operations == ContainsAny(spec_text, <<<<"d","e","l","e","t","e">>, <<"m","o","d","i","f","y">>, <<"a","c","c","e","s","s">>, <<"v","i","e","w">>, <<"e","x","p","o","r","t">>>>)
    IN  When(has_operations /\ ~Contains(spec_text, <<"a","u","d","i","t">>)
                 /\ ~Contains(spec_text, <<"l","o","g">>),
             <<Attack("Compliance Adversary", "MEDIUM", "Missing audit trail requirements",
                      "Sensitive operations without audit logging",
                      "Unable to detect or investigate breaches",
                      "Add audit logging for all data operations")>>)

Compliance_check_consent_management(spec) ==
    LET spec_text == Lower(Str(spec))
    IN  When((Contains(spec_text, <<"p","e","r","s","o","n","a","l">>) \/ Contains(spec_text, <<"u","s","e","r"," ","d","a","t","a">>))
                 /\ ~Contains(spec_text, <<"c","o","n","s","e","n","t">>),
             <<Attack("Compliance Adversary", "HIGH", "No consent management",
                      "Personal data collection without consent mechanism",
                      "GDPR violations, fines",
                      "Add explicit consent collection and management")>>)

Compliance_check_data_portability(spec) ==
    LET spec_text == Lower(Str(spec))
    IN  When(Contains(spec_text, <<"u","s","e","r">>) /\ Contains(spec_text, <<"d","a","t","a">>)
                 /\ ~Contains(spec_text, <<"e","x","p","o","r","t">>) /\ ~Contains(spec_text, <<"d","o","w","n","l","o","a","d">>),
             <<Attack("Compliance Adversary", "MEDIUM", "No data portability mechanism",
                      "User data without export functionality",
                      "GDPR Article 20 violation",
                      "Add data export functionality in machine-readable format")>>)

\* ComplianceAdversary.attack_spec
Compliance_attack_spec(spec) ==
    Ok(Compliance_check_data_retention(spec)
       \o Compliance_check_audit_requirements(spec)
       \o Compliance_check_consent_management(spec)
       \o Compliance_check_data_portability(spec))

----------------------------------------------------------------------------
(* AdversarialReviewOrchestrator *)

\* self.adversaries, in the order of __init__: the names of the five agents
adversaries ==
    <<"Security Adversary", "Ambiguity Adversary", "Implementation Adversary", "Performance Adversary", "Compliance Adversary">>

NumAdversaries == Len(adversaries)

\* adversary.attack_spec(spec) of the a-th registered adversary
attack_spec(a, spec) ==
    CASE a = 1 -> Security_attack_spec(spec)
      [] a = 2 -> Ambiguity_attack_spec(spec)
      [] a = 3 -> Implementation_attack_spec(spec)
      [] a = 4 -> Performance_attack_spec(spec)
      [] a = 5 -> Compliance_attack_spec(spec)

\* the spec of run_review: yaml.safe_load for a .yaml path, the raw text under
\* 'content' otherwise
ReviewLoad(f) ==
    IF ~f.readable THEN Raise
    ELSE IF f.suffix = <<".","y","a","m","l">> THEN Ok(f.yaml)
    ELSE Ok(PyDict(<< <<<<"c","o","n","t","e","n","t">>, PyStr(Join(<<"\n">>, f.lines))>> >>))

\* d[k] = v on an insertion-ordered dict
DictPut(kv, k, v) ==
    IF \E i \in 1..Len(kv) : kv[i][1] = k
    THEN List([i \in 1..Len(kv) |-> IF kv[i][1] = k THEN <<k, v>> ELSE kv[i]])
    ELSE Append(kv, <<k, v>>)

RECURSIVE OrganizeNonEmpty(_, _, _)
\* the loop with no key for an adversary whose list is empty: a fault in the mapping
OrganizeNonEmpty(findings_lists, i, acc) ==
    IF i > NumAdversaries \/ i > Len(findings_lists) THEN acc
    ELSE LET findings == findings_lists[i]
         IN  OrganizeNonEmpty(findings_lists, i + 1,
                 [by |-> IF findings = <<>> THEN acc.by
                         ELSE DictPut(acc.by, adversaries[i], findings),
                  all |-> acc.all \o findings,
                  critical |-> acc.critical
                      + Cardinality({j \in 1..Len(findings) :
                                        findings[j].severity = "CRITICAL"})])

RECURSIVE Organize(_, _, _)
\* the loop over zip(self.adversaries, findings_lists), from the i-th pair on;
\* acc = [by |-> findings_by_adversary, all |-> all_findings, critical |-> critical_count]
Organize(findings_lists, i, acc) ==
    IF i > NumAdversaries \/ i > Len(findings_lists) THEN acc
    ELSE LET findings == findings_lists[i]
         IN  Organize(findings_lists, i + 1,
                 [by |-> DictPut(acc.by, adversaries[i], findings),
                  all |-> acc.all \o findings,
                  critical |-> acc.critical
                      + Cardinality({j \in 1..Len(findings) :
                                        findings[j].severity = "CRITICAL"})])

\* more findings than this need review
TooManyFindings == 10
\* more findings than this need a human
HumanReviewFindings == 5

\* the status with the threshold of NEEDS_REVIEW off by one
ApprovalStatusAtTen(critical_count, total) ==
    IF critical_count > 0 THEN <<"B","L","O","C","K","E","D"," ","-"," ","C","r","i","t","i","c","a","l"," ","f","i","n","d","i","n","g","s"," ","m","u","s","t"," ","b","e"," ","a","d","d","r","e","s","s","e","d">>
    ELSE IF total >= TooManyFindings THEN <<"N","E","E","D","S","_","R","E","V","I","E","W"," ","-"," ","T","o","o"," ","m","a","n","y"," ","f","i","n","d","i","n","g","s">>
    ELSE IF total > 0 THEN <<"C","O","N","D","I","T","I","O","N","A","L"," ","-"," ","A","d","d","r","e","s","s"," ","f","i","n","d","i","n","g","s"," ","b","e","f","o","r","e"," ","i","m","p","l","e","m","e","n","t","a","t","i","o","n">>
    ELSE <<"A","P","P","R","O","V","E","D"," ","-"," ","N","o"," ","s","i","g","n","i","f","i","c","a","n","t"," ","i","s","s","u","e","s"," ","f","o","u","n","d">>

\* approval_status of run_review
ApprovalStatus(critical_count, total) ==
    IF critical_count > 0 THEN <<"B","L","O","C","K","E","D"," ","-"," ","C","r","i","t","i","c","a","l"," ","f","i","n","d","i","n","g","s"," ","m","u","s","t"," ","b","e"," ","a","d","d","r","e","s","s","e","d">>
    ELSE IF total > TooManyFindings THEN <<"N","E","E","D","S","_","R","E","V","I","E","W"," ","-"," ","T","o","o"," ","m","a","n","y"," ","f","i","n","d","i","n","g","s">>
    ELSE IF total > 0 THEN <<"C","O","N","D","I","T","I","O","N","A","L"," ","-"," ","A","d","d","r","e","s","s"," ","f","i","n","d","i","n","g","s"," ","b","e","f","o","r","e"," ","i","m","p","l","e","m","e","n","t","a","t","i","o","n">>
    ELSE <<"A","P","P","R","O","V","E","D"," ","-"," ","N","o"," ","s","i","g","n","i","f","i","c","a","n","t"," ","i","s","s","u","e","s"," ","f","o","u","n","d">>

\* human_review_required with its threshold off by one
HumanReviewAtFive(critical_count, total) ==
    critical_count > 0 \/ total >= HumanReviewFindings

\* human_review_required of the report
HumanReviewRequired(critical_count, total) ==
    critical_count > 0 \/ total > HumanReviewFindings

\* `if finding.suggested_defense`: neither None nor the empty string
HasDefense(finding) ==
    finding.suggested_defense # None
    /\ ~(finding.suggested_defense[1].fmt = "" /\ finding.suggested_defense[1].args = <<>>)

\* the changes listed from the last finding to the first: a fault in their order
_generate_defenses_reversed(findings) ==
    Flatten([i \in 1..Len(findings) |->
        When(HasDefense(findings[Len(findings) + 1 - i]),
             <<[issue |-> findings[Len(findings) + 1 - i].issue,
                change |-> findings[Len(findings) + 1 - i].suggested_defense[1],
                severity |-> findings[Len(findings) + 1 - i].severity]>>)], Len(findings))

\* _generate_defenses(findings): one change for each finding with a suggested_defense
_generate_defenses(findings) ==
    Flatten([i \in 1..Len(findings) |->
        When(HasDefense(findings[i]),
             <<[issue |-> findings[i].issue,
                change |-> findings[i].suggested_defense[1],
                severity |-> findings[i].severity]>>)], Len(findings))

\* the AdversarialReport built from the gathered lists
AdversarialReport(spec, findings_lists) ==
    LET org == Organize(findings_lists, 1, [by |-> <<>>, all |-> <<>>, critical |-> 0])
    IN  [spec_name |-> SpecName(spec),
         total_findings |-> Len(org.all),
         critical_findings |-> org.critical,
         findings_by_adversary |-> org.by,
         defended_spec_changes |-> _generate_defenses(org.all),
         approval_status |-> ApprovalStatus(org.critical, Len(org.all)),
         human_review_required |-> HumanReviewRequired(org.critical, Len(org.all))]

----------------------------------------------------------------------------
(* The documents *)

\* a file: `readable` is false when open() or yaml.safe_load raises for it; `yaml` is
\* what yaml.safe_load returns for a .yaml file, `lines` the lines of another file
YamlFile(stem, value) ==
    [readable |-> TRUE, name |-> stem \o <<".","y","a","m","l">>, suffix |-> <<".","y","a","m","l">>,
     yaml |-> value, lines |-> <<>>]

MdFile(stem, lines) ==
    [readable |-> TRUE, name |-> stem \o <<".","m","d">>, suffix |-> <<".","m","d">>,
     yaml |-> PyNone, lines |-> lines]

Unreadable(f) == [f EXCEPT !.readable = FALSE]

\* a mapping from the pairs whose value is given: <<key, <<value>> >> or <<key, <<>> >>
DictOf(pairs) ==
    PyDict(Flatten([i \in 1..Len(pairs) |->
               IF pairs[i][2] = <<>> THEN <<>>
               ELSE << <<pairs[i][1], pairs[i][2][1]>> >>], Len(pairs)))

\* the texts the documents are made of
sample ==
    [story_login |-> <<"A","s"," ","a"," ","u","s","e","r"," ","I"," ","w","a","n","t"," ","t","o"," ","l","o","g"," ","i","n">>,
     criteria_login |-> <<"a","s"," ","a"," ","u","s","e","r"," ","i"," ","w","a","n","t"," ","t","o"," ","l","o","g"," ","i","n",":"," ","w","o","r","k","s">>,
     criteria_other |-> <<"i","t"," ","w","o","r","k","s">>,
     req_login |-> <<"F","R","-","1",":"," ","a","l","l","o","w"," ","u","s","e","r"," ","l","o","g","i","n",","," ","r","e","j","e","c","t"," ","i","n","v","a","l","i","d">>,
     req_vague |-> <<"T","h","e"," ","s","y","s","t","e","m"," ","s","h","o","u","l","d"," ","v","a","l","i","d","a","t","e"," ","u","s","e","r"," ","i","n","p","u","t"," ","i","n"," ","a"," ","r","e","a","s","o","n","a","b","l","e"," ","t","i","m","e">>,
     req_must |-> <<"F","R","-","3",":"," ","u","s","e","r"," ","m","u","s","t"," ","g","e","t"," ","t","h","e"," ","s","a","m","e"," ","R","E","S","T"," ","r","e","s","u","l","t">>,
     req_must_not |-> <<"F","R","-","4",":"," ","u","s","e","r"," ","m","u","s","t"," ","n","o","t"," ","g","e","t"," ","t","h","e"," ","s","a","m","e"," ","r","e","s","u","l","t">>,
     req_exec |-> <<"F","R","-","5",":"," ","e","x","e","c","u","t","e"," ","G","E","T"," ","/","u","s","e","r","s">>,
     req_pay |-> <<"F","R","-","6",":"," ","s","t","o","r","e"," ","p","a","y","m","e","n","t"," ","i","n"," ","d","a","t","a","b","a","s","e">>,
     stem_spec |-> <<"s","p","e","c">>,
     stem_v2 |-> <<"s","p","e","c","_","v","2">>,
     name_orders |-> <<"o","r","d","e","r","s">>,
     api_get_users |-> <<"G","E","T"," ","/","u","s","e","r","s">>,
     api_get_orders |-> <<"G","E","T"," ","/","o","r","d","e","r","s">>,
     api_post_users |-> <<"P","O","S","T"," ","/","u","s","e","r","s">>,
     def_fr |-> <<"F","R">>,
     def_text |-> <<"f","u","n","c","t","i","o","n","a","l"," ","r","e","q","u","i","r","e","m","e","n","t">>,
     version_text |-> <<"v","1">>,
     security_text |-> <<"t","o","k","e","n","s"," ","e","x","p","i","r","e">>,
     dependency_text |-> <<"y","a","m","l">>,
     req_five |-> <<"F","R","-","7",":"," ","u","s","e","r"," ","s","h","o","u","l","d"," ","c","o","u","l","d"," ","m","i","g","h","t"," ","c","o","n","s","i","d","e","r">>,
     req_six |-> <<"F","R","-","8",":"," ","r","o","b","u","s","t">>,
     req_ten |-> <<"F","R","-","9",":"," ","f","l","e","x","i","b","l","e"," ","s","c","a","l","a","b","l","e"," ","m","a","y"," ","b","e"," ","t","i","m","e","l","y">>,
     req_eleven |-> <<"F","R","-","1","0",":"," ","e","f","f","i","c","i","e","n","t">>,
     req_exec_safe |-> <<"F","R","-","1","1",":"," ","e","x","e","c","u","t","e"," ","o","n","l","y"," ","s","a","n","i","t","i","z","e","d",","," ","p","a","r","a","m","e","t","e","r","i","z","e","d",","," ","e","s","c","a","p","e","d"," ","i","n","p","u","t">>,
     req_recovery |-> <<"F","R","-","1","2",":"," ","p","a","y","m","e","n","t"," ","d","a","t","a","b","a","s","e"," ","r","e","c","o","v","e","r","y",","," ","r","e","j","e","c","t"," ","i","n","v","a","l","i","d">>,
     name_x |-> <<"x">>]

\* the requirement items the generated documents draw from
ReqPool == <<sample.req_login, sample.req_must, sample.req_must_not>>

\* the bound on the number of functional requirements of a generated document
MaxReqs == 2

\* a sibling specification with one api contract
Sibling(name, api) ==
    YamlFile(name,
        PyDict(<< <<<<"m","e","t","a","d","a","t","a">>, PyDict(<< <<<<"n","a","m","e">>, PyStr(name)>> >>)>>,
                  <<<<"a","p","i","_","c","o","n","t","r","a","c","t","s">>, StrList(<<api>>)>> >>))

\* the other *.yaml files of the directory
SiblingOptions ==
    << <<>>,
       <<Sibling(sample.name_orders, sample.api_post_users)>>,
       <<Sibling(sample.name_orders, sample.api_get_users),
         Sibling(sample.stem_v2, sample.api_get_users)>>,
       <<Unreadable(Sibling(sample.name_orders, sample.api_get_orders))>> >>

GeneratedDoc(us, fr, ac, extra) ==
    PyDict(DictOf(<< <<<<"u","s","e","r","_","s","t","o","r","i","e","s">>, us>>, <<<<"f","u","n","c","t","i","o","n","a","l","_","r","e","q","u","i","r","e","m","e","n","t","s">>, fr>>,
                     <<<<"a","c","c","e","p","t","a","n","c","e","_","c","r","i","t","e","r","i","a">>, ac>> >>).kv \o extra)

\* the generated documents: every choice of the three required sections and of the
\* sections after them
GeneratedDocs ==
    LET
        USOptions == << <<>>, <<StrList(<<sample.story_login>>)>>, <<PyInt(5)>> >>
        \* functional_requirements of a generated document: absent, null, a number, or a
        \* list of at most MaxReqs items of ReqPool
        FROptions ==
            {<<>>, <<PyNone>>, <<PyInt(5)>>, <<PyInt(0)>>}
            \cup UNION {{<<StrList([k \in 1..n |-> ReqPool[idx[k]]])>> :
                            idx \in [1..n -> 1..Len(ReqPool)]} : n \in 0..MaxReqs}
        ACOptions == << <<>>, <<StrList(<<sample.criteria_login>>)>>, <<StrList(<<sample.criteria_other>>)>> >>
        \* the sections after the three required ones
        ExtraOptions ==
            << <<>>,
               << <<<<"s","e","c","u","r","i","t","y","_","r","e","q","u","i","r","e","m","e","n","t","s">>, StrList(<<sample.security_text>>)>>,
                  <<<<"d","e","p","e","n","d","e","n","c","i","e","s">>, StrList(<<sample.dependency_text>>)>> >>,
               << <<<<"a","p","i","_","c","o","n","t","r","a","c","t","s">>, StrList(<<sample.api_get_users>>)>>,
                  <<<<"d","e","f","i","n","i","t","i","o","n","s">>, PyDict(<< <<sample.def_fr, PyStr(sample.def_text)>> >>)>> >>,
               << <<<<"a","p","i","V","e","r","s","i","o","n">>, PyStr(sample.version_text)>>,
                  <<<<"m","e","t","a","d","a","t","a">>, PyDict(<< <<<<"n","a","m","e">>, PyStr(sample.stem_spec)>> >>)>> >> >>
    IN  {GeneratedDoc(USOptions[u], fr, ACOptions[c], ExtraOptions[e]) :
            u \in 1..Len(USOptions), fr \in FROptions, c \in 1..Len(ACOptions),
            e \in 1..Len(ExtraOptions)}

----------------------------------------------------------------------------
(* The documents and directories of the reviews *)

Header == << <<<<"m","e","t","a","d","a","t","a">>, PyDict(<< <<<<"n","a","m","e">>, PyStr(sample.name_x)>> >>)>> >>

CoreDoc(reqs) ==
    PyDict(<< <<<<"u","s","e","r","_","s","t","o","r","i","e","s">>, StrList(<<sample.story_login>>)>>,
              <<<<"f","u","n","c","t","i","o","n","a","l","_","r","e","q","u","i","r","e","m","e","n","t","s">>, StrList(reqs)>>,
              <<<<"a","c","c","e","p","t","a","n","c","e","_","c","r","i","t","e","r","i","a">>, StrList(<<sample.criteria_login>>)>> >>)

\* <<file, the other *.yaml files of its directory>>
Scenarios ==
    << <<YamlFile(sample.stem_spec, PyDict(Header)), <<>> >>,
       <<YamlFile(sample.stem_spec, CoreDoc(<<sample.req_login>>)), <<>> >>,
       <<YamlFile(sample.stem_spec, CoreDoc(<<sample.req_login, sample.req_vague>>)), <<>> >>,
       <<YamlFile(sample.stem_spec, CoreDoc(<<sample.req_login, sample.req_exec>>)),
         <<Sibling(sample.name_orders, sample.api_get_orders), Sibling(sample.stem_v2, sample.api_get_users)>> >>,
       <<YamlFile(sample.stem_spec, CoreDoc(<<sample.req_login, sample.req_exec>>)),
         <<Sibling(sample.stem_v2, sample.api_get_users), Sibling(sample.name_orders, sample.api_get_orders)>> >>,
       <<YamlFile(sample.stem_v2, CoreDoc(<<sample.req_login, sample.req_pay>>)), <<>> >>,
       <<YamlFile(sample.stem_spec, CoreDoc(<<sample.req_five>>)), <<>> >>,
       <<YamlFile(sample.stem_spec, CoreDoc(<<sample.req_five, sample.req_six>>)), <<>> >>,
       <<YamlFile(sample.stem_spec, CoreDoc(<<sample.req_five, sample.req_six, sample.req_ten>>)), <<>> >>,
       <<YamlFile(sample.stem_spec, CoreDoc(<<sample.req_five, sample.req_six, sample.req_ten, sample.req_eleven>>)), <<>> >>,
       <<YamlFile(sample.stem_spec,
             CoreDoc(<<sample.req_five, sample.req_six, sample.req_ten, sample.req_eleven, sample.req_exec>>)), <<>> >>,
       <<YamlFile(sample.stem_spec, CoreDoc(<<sample.req_must, sample.req_login>>)),
         <<Sibling(sample.name_orders, sample.api_post_users)>> >>,
       <<YamlFile(sample.stem_spec, PyNone), <<>> >>,
       <<YamlFile(sample.stem_spec, PyList(<<PyStr(sample.req_login)>>)), <<>> >>,
       <<YamlFile(sample.stem_spec,
             PyDict(<< <<<<"u","s","e","r","_","s","t","o","r","i","e","s">>, StrList(<<sample.story_login>>)>>,
                       <<<<"f","u","n","c","t","i","o","n","a","l","_","r","e","q","u","i","r","e","m","e","n","t","s">>, PyInt(5)>>,
                       <<<<"a","c","c","e","p","t","a","n","c","e","_","c","r","i","t","e","r","i","a">>, StrList(<<sample.criteria_login>>)>> >>)), <<>> >>,
       <<MdFile(sample.stem_spec, <<<<"#","#"," ","U","s","e","r"," ","S","t","o","r","i","e","s">>, <<"-"," ","A","s"," ","a"," ","u","s","e","r"," ","I"," ","w","a","n","t"," ","t","o"," ","l","o","g"," ","i","n">>, <<"#","#"," ","N","o","t","e","s">>, <<"-"," ","s","c","r","a","t","c","h">>, <<"#","#"," ","F","u","n","c","t","i","o","n","a","l"," ","R","e","q","u","i","r","e","m","e","n","t","s">>, <<"-"," ","F","R","-","1",":"," ","u","s","e","r"," ","s","h","o","u","l","d"," ","l","o","g"," ","i","n">>, <<"n","o","t"," ","a"," ","b","u","l","l","e","t">>, <<"#","#"," ","A","c","c","e","p","t","a","n","c","e"," ","C","r","i","t","e","r","i","a"," ","(","d","r","a","f","t",")">>, <<" "," ","-"," ","i","t"," ","w","o","r","k","s"," ">>>>), <<>> >>,
       <<Unreadable(YamlFile(sample.stem_spec, PyDict(Header))), <<>> >>,
       <<YamlFile(sample.stem_spec, CoreDoc(<<sample.req_login, sample.req_exec_safe>>)), <<>> >>,
       <<YamlFile(sample.stem_spec,
             PyDict(CoreDoc(<<sample.req_vague, sample.req_login>>).kv
                    \o << <<<<"n","o","n","_","f","u","n","c","t","i","o","n","a","l","_","r","e","q","u","i","r","e","m","e","n","t","s">>,
                            StrList(<<sample.req_six, sample.req_vague>>)>> >>)), <<>> >>,
       <<YamlFile(sample.stem_spec,
             PyDict(CoreDoc(<<sample.req_login, sample.req_recovery>>).kv
                    \o << <<<<"s","e","c","u","r","i","t","y","_","r","e","q","u","i","r","e","m","e","n","t","s">>,
                            StrList(<<sample.security_text>>)>> >>)), <<>> >> >>

\* attack_spec of each adversary on each of these documents: what a task computes is a
\* function of the adversary and the document alone, so it is evaluated once here
AttackOutcome ==
    LET \* the documents run_review loads in the scenarios
        ReviewDocs ==
            {ReviewLoad(Scenarios[i][1]).value :
                i \in {j \in 1..Len(Scenarios) : ~ReviewLoad(Scenarios[j][1]).raised}}
    IN  [d \in ReviewDocs |-> List([a \in 1..NumAdversaries |-> attack_spec(a, d)])]
        @@ [d \in {} |-> <<>>]

----------------------------------------------------------------------------
(* State *)

VARIABLES
    file,            \* the file at spec_path
    siblings,        \* the other *.yaml files of its directory, as the directory lists them
    run,             \* the number of the current run of the pipeline
    history,         \* the outputs of the earlier runs
    gatePc,          \* where the validator is: "new", "loop", "running", "returned", "raised"
    gateIdx,         \* the index into validators of the current iteration
    self_spec,       \* self.spec of the validator
    results,         \* results of run_progressive_validation: <<level, result>> pairs
    current_level,   \* self.current_level
    reviewPc,        \* where run_review is: "new", "gather", "returned", "raised"
    review_spec,     \* spec of run_review
    task,            \* the state of each adversary's attack_spec task
    task_result,     \* what each finished task returned
    completed,       \* the adversaries in the order their tasks finished
    gathered,        \* findings_lists of run_review: what gather returned
    self_findings,   \* self.findings of each adversary
    report,          \* the report run_review returned: <<>> or <<report>>
    heap,            \* the findings lists as objects: the content of each list
    findings_ref,    \* self.findings of each adversary of a shared orchestrator: a list
    call             \* the run_review calls on the shared orchestrator

vars ==
    <<file, siblings, run, history, gatePc, gateIdx, self_spec, results, current_level,
      reviewPc, review_spec, task, task_result, completed, gathered, self_findings,
      report, heap, findings_ref, call>>

inputVars == <<file, siblings>>
orchVars == <<heap, findings_ref, call>>
gateVars == <<gatePc, gateIdx, self_spec, results, current_level>>
reviewVars ==
    <<reviewPc, review_spec, task, task_result, completed, gathered, self_findings,
      report>>

\* the bound on the runs of the pipeline over the same files
MaxRuns == 2

\* the bound on the run_review calls made on one orchestrator
MaxCalls == 2

InitRun ==
    /\ run = 1
    /\ history = <<>>
    /\ gatePc = "new"
    /\ gateIdx = 1
    /\ self_spec = PyNone
    /\ results = <<>>
    /\ current_level = "SYNTAX"
    /\ reviewPc = "new"
    /\ review_spec = PyNone
    /\ task = [a \in 1..NumAdversaries |-> "none"]
    /\ task_result = [a \in 1..NumAdversaries |-> <<>>]
    /\ completed = <<>>
    /\ gathered = <<>>
    /\ self_findings = [a \in 1..NumAdversaries |-> <<>>]
    /\ report = <<>>
    \* the findings lists: <<0, a>> is the list AdversaryAgent.__init__ gives the a-th
    \* adversary, <<c, a>> the list its attack_spec creates in the c-th call
    /\ heap = [id \in (0..MaxCalls) \X (1..NumAdversaries) |-> <<>>]
    /\ findings_ref = [a \in 1..NumAdversaries |-> <<0, a>>]
    \* no run_review call has been made
    /\ call = [c \in 1..MaxCalls |->
                  [pc |-> "new", spec |-> PyNone,
                   task |-> [a \in 1..NumAdversaries |-> "none"],
                   returned |-> [a \in 1..NumAdversaries |-> <<>>],
                   report |-> <<>>]]

----------------------------------------------------------------------------
(* DefenseInDepthValidator: __init__ and run_progressive_validation *)

\* DefenseInDepthValidator(spec_path): _load_spec, then results = {} and the loop
NewValidator ==
    /\ gatePc = "new"
    /\ LET loaded == _load_spec(file)
       IN  IF loaded.raised
           THEN gatePc' = "raised" /\ UNCHANGED <<self_spec, current_level>>
           ELSE gatePc' = "loop" /\ self_spec' = loaded.value /\ current_level' = "SYNTAX"
    /\ gateIdx' = 1
    /\ results' = <<>>
    /\ UNCHANGED <<inputVars, orchVars, run, history, reviewVars>>

\* `for level, validator in validators`: the call validator() of the next level
StartGate ==
    /\ gatePc = "loop"
    /\ gatePc' = "running"
    /\ UNCHANGED <<inputVars, orchVars, run, history, gateIdx, self_spec, results, current_level,
                   reviewVars>>

\* validators[i][1](): technical_terms is the order of list(set(terms)) in this call
Validate(i, technical_terms) ==
    CASE i = 1 -> validate_level_1_syntax(self_spec, file.suffix)
      [] i = 2 -> validate_level_2_semantic(self_spec, technical_terms)
      [] i = 3 -> validate_level_3_coverage(self_spec)
      [] i = 4 -> validate_level_4_cross_reference(self_spec, file.name, siblings)

\* the orders in which list(set(terms)) of level i can come out: the order of a set of
\* strings follows their hashes, which are salted anew in every process
TermOrders(i) ==
    IF i = 2 THEN Orders(_find_technical_terms(self_spec)) ELSE {<<>>}

\* the loop without its break: the fault the ordering of the gates must exclude
StopNever(result) == FALSE

\* `if not result.passed: break`
Stop(result) == ~result.passed

\* a loop that returns after its first passed level: a fault in the advance
AfterPassedReturns(i) == "returned"

\* after a passed level the loop goes on to the next validator, if any
AfterPassed(i) == IF i = Len(ValidationLevel) THEN "returned" ELSE "loop"

\* the rest of the loop body once validator() has returned or raised
FinishGate ==
    /\ gatePc = "running"
    /\ \E out \in {Validate(gateIdx, technical_terms) :
                       technical_terms \in TermOrders(gateIdx)} :
           IF out.raised
           THEN /\ gatePc' = "raised"
                /\ UNCHANGED <<gateIdx, results, current_level>>
           ELSE /\ results' = DictPut(results, ValidationLevel[gateIdx], out.value)
                /\ IF Stop(out.value)
                   THEN /\ gatePc' = "returned"
                        /\ UNCHANGED <<gateIdx, current_level>>
                   ELSE /\ current_level' = ValidationLevel[gateIdx]
                        /\ gatePc' = AfterPassed(gateIdx)
                        /\ gateIdx' = IF gateIdx = Len(ValidationLevel)
                                      THEN gateIdx ELSE gateIdx + 1
    /\ UNCHANGED <<inputVars, orchVars, run, history, self_spec, reviewVars>>

GateDone == gatePc \in {"returned", "raised"}

----------------------------------------------------------------------------
(* AdversarialReviewOrchestrator.run_review *)

\* open and load the file, then create the five attack_spec coroutines for gather
StartReview ==
    /\ GateDone
    /\ reviewPc = "new"
    /\ LET loaded == ReviewLoad(file)
       IN  IF loaded.raised
           THEN reviewPc' = "raised" /\ UNCHANGED <<review_spec, task>>
           ELSE /\ reviewPc' = "gather"
                /\ review_spec' = loaded.value
                /\ task' = [a \in 1..NumAdversaries |-> "pending"]
    /\ UNCHANGED <<inputVars, orchVars, run, history, gateVars, task_result, completed,
                   gathered, self_findings, report>>

\* a scan that takes the list of the document as its requirements list, so that extend
\* writes the non-functional items into functional_requirements: a fault in the frame
SpecAfterAliasedExtend(a, spec) ==
    IF /\ a = 2
       /\ IsDict(spec)
       /\ HasKey(spec, <<"f","u","n","c","t","i","o","n","a","l","_","r","e","q","u","i","r","e","m","e","n","t","s">>)
       /\ HasKey(spec, <<"n","o","n","_","f","u","n","c","t","i","o","n","a","l","_","r","e","q","u","i","r","e","m","e","n","t","s">>)
       /\ IsList(Get(spec, <<"f","u","n","c","t","i","o","n","a","l","_","r","e","q","u","i","r","e","m","e","n","t","s">>))
       /\ Iterable(Get(spec, <<"n","o","n","_","f","u","n","c","t","i","o","n","a","l","_","r","e","q","u","i","r","e","m","e","n","t","s">>))
    THEN PyDict(DictPut(spec.kv, <<"f","u","n","c","t","i","o","n","a","l","_","r","e","q","u","i","r","e","m","e","n","t","s">>,
                    PyList(Get(spec, <<"f","u","n","c","t","i","o","n","a","l","_","r","e","q","u","i","r","e","m","e","n","t","s">>).items
                           \o Items(Get(spec, <<"n","o","n","_","f","u","n","c","t","i","o","n","a","l","_","r","e","q","u","i","r","e","m","e","n","t","s">>)))))
    ELSE spec

\* the document after attack_spec of the a-th adversary: the checks read spec and
\* append to self.findings and to lists of their own only
SpecAfterAttack(a, spec) == spec

\* one findings list that all the adversaries append to and none replaces: the shared
\* mutable state the adversaries must not have
SharedFindings(findings_of, a) ==
    Concat(List([b \in 1..NumAdversaries |-> findings_of[b]]))

\* `self.findings = []` at the start of attack_spec: the list of this adversary that
\* its checks append to, whatever the lists of the adversaries held before
StartOfFindings(findings_of, a) == <<>>

\* the a-th task runs attack_spec to its end: it never suspends
AttackSpec(a) ==
    /\ reviewPc = "gather"
    /\ task[a] = "pending"
    /\ review_spec' = SpecAfterAttack(a, review_spec)
    /\ LET out == IF review_spec \in DOMAIN AttackOutcome
                  THEN AttackOutcome[review_spec][a]
                  ELSE attack_spec(a, review_spec)
       IN  IF out.raised
           THEN /\ task' = [task EXCEPT ![a] = "raised"]
                /\ self_findings' = [self_findings EXCEPT ![a] = <<>>]
                /\ UNCHANGED task_result
           ELSE /\ task' = [task EXCEPT ![a] = "done"]
                /\ self_findings' = [self_findings EXCEPT
                                         ![a] = StartOfFindings(self_findings, a) \o out.value]
                /\ task_result' = [task_result EXCEPT ![a] = self_findings'[a]]
    /\ completed' = Append(completed, a)
    /\ UNCHANGED <<inputVars, orchVars, run, history, gateVars, reviewPc, gathered, report>>

\* the results in the order the tasks finished in: what a merge by completion would give
gatherAsCompleted(returned, finished) ==
    List([k \in 1..NumAdversaries |-> returned[finished[k]]])

\* asyncio.gather(*aws) of finished tasks: the results in the order of the awaitables,
\* whatever the order the tasks finished in
gather(returned, finished) == List([a \in 1..NumAdversaries |-> returned[a]])

\* a gather that returns as soon as one task has: the fault an incomplete report needs
SomeReturned(tasks) == \E a \in 1..NumAdversaries : tasks[a] = "done"

\* the future of gather has its result when every task has returned
AllReturned(tasks) == \A a \in 1..NumAdversaries : tasks[a] = "done"

\* gather returned the five lists: the report is built and returned
Merge ==
    /\ reviewPc = "gather"
    /\ AllReturned(task)
    /\ gathered' = gather(task_result, completed)
    /\ IF NameReadable(review_spec)
       THEN /\ report' = <<AdversarialReport(review_spec, gathered')>>
            /\ reviewPc' = "returned"
       ELSE /\ reviewPc' = "raised"
            /\ UNCHANGED report
    /\ UNCHANGED <<inputVars, orchVars, run, history, gateVars, review_spec, task, task_result,
                   completed, self_findings>>

\* gather propagates the first exception of a task to run_review, which raises;
\* asyncio.run then cancels the tasks that have not run
GatherRaise ==
    /\ reviewPc = "gather"
    /\ \E a \in 1..NumAdversaries : task[a] = "raised"
    /\ reviewPc' = "raised"
    /\ task' = [a \in 1..NumAdversaries |->
                   IF task[a] = "pending" THEN "cancelled" ELSE task[a]]
    /\ UNCHANGED <<inputVars, orchVars, run, history, gateVars, review_spec, task_result,
                   completed, gathered, self_findings, report>>

\* the caller cancels run_review while it awaits gather: gather cancels the tasks that
\* have not finished and CancelledError is raised at the await
Cancel ==
    /\ reviewPc = "gather"
    /\ \E a \in 1..NumAdversaries : task[a] = "pending"
    /\ reviewPc' = "raised"
    /\ task' = [a \in 1..NumAdversaries |->
                   IF task[a] = "pending" THEN "cancelled" ELSE task[a]]
    /\ UNCHANGED <<inputVars, orchVars, run, history, gateVars, review_spec, task_result,
                   completed, gathered, self_findings, report>>

ReviewDone == reviewPc \in {"returned", "raised"}

----------------------------------------------------------------------------
(* The pipeline run again on the same files *)

\* what one run of the pipeline produced
Output ==
    [validation |-> IF gatePc = "returned" THEN <<results>> ELSE <<>>,
     review |-> report]

NextRun ==
    /\ GateDone /\ ReviewDone
    /\ run < MaxRuns
    /\ run' = run + 1
    /\ history' = Append(history, Output)
    /\ gatePc' = "new"
    /\ gateIdx' = 1
    /\ self_spec' = PyNone
    /\ results' = <<>>
    /\ current_level' = "SYNTAX"
    /\ reviewPc' = "new"
    /\ review_spec' = PyNone
    /\ task' = [a \in 1..NumAdversaries |-> "none"]
    /\ task_result' = [a \in 1..NumAdversaries |-> <<>>]
    /\ completed' = <<>>
    /\ gathered' = <<>>
    /\ self_findings' = [a \in 1..NumAdversaries |-> <<>>]
    /\ report' = <<>>
    /\ UNCHANGED <<inputVars, orchVars>>

----------------------------------------------------------------------------
(* One AdversarialReviewOrchestrator used for several run_review calls *)

\* attack_spec without `self.findings = []`: the checks append to the list the
\* adversary already has
KeepList(h, ref, fresh) == [heap |-> h, ref |-> ref]

\* attack_spec that empties the list it has, `self.findings.clear()`, instead of taking
\* a new one
ClearInPlace(h, ref, fresh) == [heap |-> [h EXCEPT ![ref] = <<>>], ref |-> ref]

\* `self.findings = []`: self.findings is bound to a new, empty list; the list it was
\* bound to is left as it is
Rebind(h, ref, fresh) == [heap |-> [h EXCEPT ![fresh] = <<>>], ref |-> fresh]

\* the c-th call of run_review reaches `await asyncio.gather(...)`: the file is loaded
\* and the five attack_spec coroutines are created; calls are numbered as they start.
\* The files: a document with vague requirements, one that mentions execute, and one
\* on which an adversary raises
StartCall(c) ==
    /\ call[c].pc = "new"
    /\ \A d \in 1..(c - 1) : call[d].pc # "new"
    /\ \E f \in {Scenarios[3][1], Scenarios[4][1], Scenarios[15][1]} :
           LET loaded == ReviewLoad(f)
           IN  call' = [call EXCEPT ![c] =
                   IF loaded.raised THEN [@ EXCEPT !.pc = "raised"]
                   ELSE [@ EXCEPT !.pc = "gather", !.spec = loaded.value,
                                  !.task = [a \in 1..NumAdversaries |-> "pending"]]]
    /\ UNCHANGED <<inputVars, run, history, gateVars, reviewVars, heap, findings_ref>>

\* the task of the a-th adversary in the c-th call runs attack_spec to its end: the
\* tasks of one gather start in the order of its arguments and never suspend, the tasks
\* of different calls come in any order
AttackCall(c, a) ==
    /\ call[c].pc = "gather"
    /\ call[c].task[a] = "pending"
    /\ \A b \in 1..(a - 1) : call[c].task[b] # "pending"
    /\ LET out == AttackOutcome[call[c].spec][a]
           start == Rebind(heap, findings_ref[a], <<c, a>>)
       IN  /\ findings_ref' = [findings_ref EXCEPT ![a] = start.ref]
           /\ IF out.raised
              THEN /\ heap' = start.heap
                   /\ call' = [call EXCEPT ![c].task[a] = "raised"]
              ELSE /\ heap' = [start.heap EXCEPT ![start.ref] = @ \o out.value]
                   /\ call' = [call EXCEPT ![c].task[a] = "done",
                                           ![c].returned[a] = findings_ref'[a]]
    /\ UNCHANGED <<inputVars, run, history, gateVars, reviewVars>>

\* gather of the c-th call returned the five lists: the report is built from them; its
\* findings_by_adversary holds the lists themselves, its other fields values
MergeCall(c) ==
    /\ call[c].pc = "gather"
    /\ AllReturned(call[c].task)
    /\ LET lists == List([a \in 1..NumAdversaries |-> heap[call[c].returned[a]]])
           by == List([a \in 1..NumAdversaries |-> <<adversaries[a], call[c].returned[a]>>])
       IN  call' = [call EXCEPT ![c] =
               IF NameReadable(call[c].spec)
               THEN [@ EXCEPT !.pc = "returned",
                              !.report = <<[AdversarialReport(call[c].spec, lists)
                                               EXCEPT !.findings_by_adversary = by]>>]
               ELSE [@ EXCEPT !.pc = "raised"]]
    /\ UNCHANGED <<inputVars, run, history, gateVars, reviewVars, heap, findings_ref>>

\* gather of the c-th call propagates the exception of a task: the call raises
GatherRaiseCall(c) ==
    /\ call[c].pc = "gather"
    /\ \E a \in 1..NumAdversaries : call[c].task[a] = "raised"
    /\ call' = [call EXCEPT ![c].pc = "raised",
                            ![c].task = [a \in 1..NumAdversaries |->
                                IF call[c].task[a] = "pending" THEN "cancelled"
                                ELSE call[c].task[a]]]
    /\ UNCHANGED <<inputVars, run, history, gateVars, reviewVars, heap, findings_ref>>

----------------------------------------------------------------------------
(* Specifications *)

\* the pipeline, run MaxRuns times, on each scenario
Init ==
    /\ \E i \in 1..Len(Scenarios) :
           file = Scenarios[i][1] /\ siblings = Scenarios[i][2]
    /\ InitRun

Next ==
    \/ NewValidator
    \/ StartGate
    \/ FinishGate
    \/ StartReview
    \/ \E a \in 1..NumAdversaries : AttackSpec(a)
    \/ Merge
    \/ GatherRaise
    \/ Cancel
    \/ NextRun

Spec == Init /\ [][Next]_vars

\* the validation gates alone, on the generated documents and on the scenarios
InitGates ==
    /\ \/ \E doc \in GeneratedDocs, s \in 1..Len(SiblingOptions) :
              /\ file = YamlFile(sample.stem_spec, doc)
              /\ siblings = SiblingOptions[s]
       \/ \E i \in 1..Len(Scenarios) :
              file = Scenarios[i][1] /\ siblings = Scenarios[i][2]
    /\ InitRun

NextGates ==
    \/ NewValidator
    \/ StartGate
    \/ FinishGate

SpecGates == InitGates /\ [][NextGates]_vars

\* run_review calls that overlap or follow each other on one orchestrator
InitOrchestrator ==
    /\ file = Scenarios[1][1]
    /\ siblings = Scenarios[1][2]
    /\ InitRun

NextOrchestrator ==
    \/ \E c \in 1..MaxCalls : StartCall(c)
    \/ \E c \in 1..MaxCalls, a \in 1..NumAdversaries : AttackCall(c, a)
    \/ \E c \in 1..MaxCalls : MergeCall(c)
    \/ \E c \in 1..MaxCalls : GatherRaiseCall(c)

SpecOrchestrator == InitOrchestrator /\ [][NextOrchestrator]_vars

----------------------------------------------------------------------------
(* Properties of the validation gates, under SpecGates *)

\* while a level runs, the map holds the results of exactly the levels before it, in
\* order, and none of them has an error
RunningAfterCleanLevels ==
    gatePc = "running" =>
        /\ Len(results) = gateIdx - 1
        /\ \A i \in 1..Len(results) :
               results[i][1] = ValidationLevel[i] /\ results[i][2].errors = <<>>

\* C1: the gates run one at a time in the order SYNTAX, SEMANTIC, COVERAGE,
\* CROSS_REFERENCE: level N+1 is started only after level N has finished with no error,
\* and once a level has returned a result with an error no level is started any more
C1_GatesInOrder ==
    /\ []RunningAfterCleanLevels
    /\ [][(\E i \in 1..Len(results) : results[i][2].errors # <<>>)
             => gatePc' # "running"]_vars

\* SYNTAX passed, SEMANTIC returned errors, and the pipeline returned without COVERAGE
C1_StoppedAtSemantic ==
    /\ gatePc = "returned"
    /\ Len(results) = 2
    /\ results[1][2].errors = <<>>
    /\ results[2][2].errors # <<>>

\* C2: the returned map holds exactly the levels attempted: its keys are a non-empty
\* prefix of the four levels, every entry but the last passed, and the last entry of a
\* map with fewer than four entries did not pass
C2_ReturnedMapIsPrefix ==
    gatePc = "returned" =>
        /\ Len(results) \in 1..Len(ValidationLevel)
        /\ \A i \in 1..Len(results) : results[i][1] = ValidationLevel[i]
        /\ \A i \in 1..(Len(results) - 1) : results[i][2].passed
        /\ Len(results) < Len(ValidationLevel) => ~results[Len(results)][2].passed

\* a returned map of three levels, the third failed
C2_ReturnedAtCoverage ==
    /\ gatePc = "returned"
    /\ Len(results) = 3
    /\ results[2][2].passed
    /\ ~results[3][2].passed

\* C3: ready_for_adversarial is true for the CROSS_REFERENCE result alone, and for it
\* exactly when that level passed; the results of the three levels before it carry
\* false, passed or not
C3_ReadyOnlyAtCrossReference ==
    \A i \in 1..Len(results) :
        results[i][2].ready_for_adversarial
            = (results[i][1] = "CROSS_REFERENCE" /\ results[i][2].passed)

\* all four levels passed: three results that passed and are not ready, one that is
C3_AllLevelsPassed ==
    /\ Len(results) = 4
    /\ \A i \in 1..4 : results[i][2].passed
    /\ results[4][2].ready_for_adversarial

\* a section value that is empty: null, or a list, a mapping or a text without items
EmptyValue(v) == v.t # "int" /\ ~Truthy(v)

\* the loaded document is a mapping without functional_requirements, or with an empty one
LacksRequirements ==
    /\ gatePc # "new"
    /\ IsDict(self_spec)
    /\ \/ ~HasKey(self_spec, <<"f","u","n","c","t","i","o","n","a","l","_","r","e","q","u","i","r","e","m","e","n","t","s">>)
       \/ EmptyValue(Get(self_spec, <<"f","u","n","c","t","i","o","n","a","l","_","r","e","q","u","i","r","e","m","e","n","t","s">>))

\* C4: for a document whose functional_requirements is missing or empty, SEMANTIC is
\* never run and the pipeline ends with a map of exactly one entry, for SYNTAX, which
\* did not pass and has an error naming functional_requirements
C4_MissingRequirementsStopAtSyntax ==
    LacksRequirements =>
        /\ gateIdx = 1
        /\ GateDone =>
               /\ gatePc = "returned"
               /\ Len(results) = 1
               /\ results[1][1] = "SYNTAX"
               /\ ~results[1][2].passed
               /\ \E e \in 1..Len(results[1][2].errors) :
                      results[1][2].errors[e].args = <<<<"f","u","n","c","t","i","o","n","a","l","_","r","e","q","u","i","r","e","m","e","n","t","s">>>>

\* C5: the result of each level has passed exactly when its errors are empty, whatever
\* its warnings and suggestions
C5_PassedIffNoErrors ==
    \A i \in 1..Len(results) :
        results[i][2].passed <=> (results[i][2].errors = <<>>)

\* four results: passed ones that carry warnings and suggestions, and a failed one
C5_PassedWithWarnings ==
    /\ Len(results) = 4
    /\ \A i \in 1..3 : results[i][2].passed /\ results[i][2].warnings # <<>>
                           /\ results[i][2].suggestions # <<>>
    /\ ~results[4][2].passed

----------------------------------------------------------------------------
(* Properties of the adversarial review, under Spec *)

\* the findings of a report, adversary by adversary in the order of its mapping
ReportFindings(r) ==
    Concat(List([i \in 1..Len(r.findings_by_adversary) |-> r.findings_by_adversary[i][2]]))

\* the number of CRITICAL findings among fs
CriticalIn(fs) == Cardinality({j \in 1..Len(fs) : fs[j].severity = "CRITICAL"})

\* C6: the approval status follows from the merged findings alone: BLOCKED with a
\* CRITICAL finding, else NEEDS_REVIEW with more than 10 findings, else CONDITIONAL with
\* more than 0, else APPROVED; 10 findings without a CRITICAL one are CONDITIONAL, 11
\* NEEDS_REVIEW
C6_ApprovalStatus ==
    report # <<>> =>
        LET r == report[1]
            total == Len(ReportFindings(r))
            critical == CriticalIn(ReportFindings(r))
        IN  /\ critical > 0 => StartsWith(r.approval_status, <<"B","L","O","C","K","E","D">>)
            /\ critical = 0 /\ total > 10 => StartsWith(r.approval_status, <<"N","E","E","D","S","_","R","E","V","I","E","W">>)
            /\ critical = 0 /\ total \in 1..10
                   => StartsWith(r.approval_status, <<"C","O","N","D","I","T","I","O","N","A","L">>)
            /\ total = 0 => StartsWith(r.approval_status, <<"A","P","P","R","O","V","E","D">>)

\* a report of 11 findings, none of them CRITICAL
C6_ElevenFindings ==
    /\ report # <<>>
    /\ Len(ReportFindings(report[1])) = 11
    /\ CriticalIn(ReportFindings(report[1])) = 0

\* C7: human_review_required is true exactly when the merged findings hold a CRITICAL
\* finding or more than 5 findings: 5 findings without a CRITICAL one give false, 6 true
C7_HumanReview ==
    report # <<>> =>
        LET r == report[1]
            total == Len(ReportFindings(r))
            critical == CriticalIn(ReportFindings(r))
        IN  r.human_review_required <=> (critical > 0 \/ total > 5)

\* a report of 6 findings, none of them CRITICAL, that requires a human review
C7_SixFindings ==
    /\ report # <<>>
    /\ Len(ReportFindings(report[1])) = 6
    /\ CriticalIn(ReportFindings(report[1])) = 0
    /\ report[1].human_review_required

\* the names of the adversaries in their registration order
RegistrationOrder ==
    <<"Security Adversary", "Ambiguity Adversary", "Implementation Adversary",
      "Performance Adversary", "Compliance Adversary">>

\* C8: whatever order the adversaries finish in, findings_by_adversary and the flattened
\* list of findings follow the registration order Security, Ambiguity, Implementation,
\* Performance, Compliance, and the findings of one adversary keep the order it emitted
\* them in
C8_RegistrationOrder ==
    report # <<>> =>
        LET by == report[1].findings_by_adversary
            emitted == Concat(List([a \in 1..5 |-> task_result[a]]))
        IN  /\ Len(by) = 5
            /\ \A a \in 1..5 : by[a][1] = RegistrationOrder[a] /\ by[a][2] = task_result[a]
            /\ \A a \in 1..5 : \A j \in 1..Len(by[a][2]) :
                   by[a][2][j].adversary = RegistrationOrder[a]
            /\ Concat(gathered) = emitted
            /\ report[1].defended_spec_changes = _generate_defenses(emitted)

\* a report after the adversaries finished in the reverse of their registration order,
\* the first and the last of them with findings
C8_ReverseCompletion ==
    /\ report # <<>>
    /\ completed = <<5, 4, 3, 2, 1>>
    /\ Len(task_result[1]) > 1
    /\ Len(task_result[5]) > 1

\* C9: two runs of the pipeline on an unchanged document and unchanged siblings give
\* identical results and reports, the order of every list included
C9_RunsAgree ==
    (GateDone /\ ReviewDone) => \A k \in 1..Len(history) : history[k] = Output

\* C10: when the attack_spec of one adversary raises, the review still returns a report,
\* and the report holds the findings of every adversary that finished
C10_FailedAdversaryIsolated ==
    (ReviewDone /\ \E a \in 1..NumAdversaries : task[a] = "raised") =>
        /\ report # <<>>
        /\ \A b \in 1..NumAdversaries :
               task[b] = "done" => report[1].findings_by_adversary[b][2] = task_result[b]

\* C11: a cancelled adversary contributes no findings, and a run in which some adversary
\* did not complete never produces a report whose approval status is APPROVED (the
\* report has no field that could mark it as partial)
C11_NoApprovalFromIncompleteRun ==
    /\ \A a \in 1..NumAdversaries :
           task[a] = "cancelled" => task_result[a] = <<>> /\ self_findings[a] = <<>>
    /\ (\E a \in 1..NumAdversaries : task[a] # "done") =>
           \A k \in 1..Len(report) : ~StartsWith(report[k].approval_status, <<"A","P","P","R","O","V","E","D">>)

\* the review was cancelled after one adversary had returned findings and before another
\* had run: run_review raised and there is no report
C11_CancelledInFlight ==
    /\ reviewPc = "raised"
    /\ \E a \in 1..NumAdversaries : task[a] = "cancelled"
    /\ \E a \in 1..NumAdversaries : task[a] = "done" /\ task_result[a] # <<>>
    /\ \A a \in 1..NumAdversaries : task[a] # "raised"
    /\ report = <<>>

C13_RulesNeverRaise ==
    [][/\ (gatePc = "running" /\ self_spec.t = "dict" /\ gateIdx < 4)
              => gatePc' # "raised"
       /\ \A a \in 1..NumAdversaries :
              (task[a] = "pending" /\ review_spec.t = "dict") => task'[a] # "raised"]_vars

\* C14: the CROSS_REFERENCE gate does not raise when a sibling file cannot be read or
\* parsed: the sibling is left out and the gate returns its result
C14_UnreadableSiblingExcluded ==
    (gateIdx = 4 /\ \E i \in 1..Len(siblings) : ~siblings[i].readable)
        => gatePc # "raised"

\* C15: a document that failed to load never reaches a gate: the validator is not
\* constructed for a file that cannot be read or parsed, and no gate runs on a document
\* whose parse did not yield a mapping
C15_NoGateOnUnloadedDocument ==
    /\ ~file.readable => gatePc \in {"new", "raised"}
    /\ gatePc = "running" => IsDict(self_spec)

\* the four heading lines of the outline format
RecognizedHeadings ==
    {<<"#","#"," ","U","s","e","r"," ","S","t","o","r","i","e","s">>, <<"#","#"," ","F","u","n","c","t","i","o","n","a","l"," ","R","e","q","u","i","r","e","m","e","n","t","s">>,
     <<"#","#"," ","N","o","n","-","F","u","n","c","t","i","o","n","a","l"," ","R","e","q","u","i","r","e","m","e","n","t","s">>, <<"#","#"," ","A","c","c","e","p","t","a","n","c","e"," ","C","r","i","t","e","r","i","a">>}

RECURSIVE OutlineAsStated(_, _, _)
\* the outline scan as it is stated: a line that is exactly a recognized heading makes
\* its section the active one, any other heading line leaves no section active, a
\* bullet line is appended, trimmed and without its dash, to the active section, and
\* every other line is ignored
OutlineAsStated(lines, active, acc) ==
    IF lines = <<>> THEN acc
    ELSE LET line == Head(lines)
         IN  IF line \in RecognizedHeadings
             THEN OutlineAsStated(Tail(lines), HeadingOf(line), acc)
             ELSE IF StartsWith(line, <<"#">>)
             THEN OutlineAsStated(Tail(lines), <<>>, acc)
             ELSE IF active # <<>> /\ StartsWith(Strip(line), <<"-">>)
             THEN OutlineAsStated(Tail(lines), active,
                      [acc EXCEPT ![active] = Append(@, Strip(Drop(Strip(line), 1)))])
             ELSE OutlineAsStated(Tail(lines), active, acc)

\* C18: the document a validator holds for an outline file has, for each of the four
\* sections, the bullet lines that follow the exact heading line of the section, in
\* input order, and nothing from lines under any other heading
C18_OutlineParsedAsStated ==
    (gatePc = "loop" /\ file.suffix # <<".","y","a","m","l">>) =>
        LET stated == OutlineAsStated(file.lines, <<>>, [k \in Range(MdSections) |-> <<>>])
        IN  \A k \in Range(MdSections) : Get(self_spec, k) = StrList(stated[k])

\* the endpoint signatures METHOD /path in the text of a document
Signatures(doc) ==
    LET s == Str(doc)
    IN  {SubSeq(s, k, EndpointEnd(s, k, http_methods[m])) :
            <<k, m>> \in {p \in (1..Len(s)) \X (1..Len(http_methods)) :
                             EndpointEnd(s, p[1], http_methods[p[2]]) > 0}}

\* C19: the CROSS_REFERENCE result holds a conflict error naming a sibling document
\* exactly when the document and that sibling contain an identical endpoint signature
\* METHOD /path; the same method on different paths gives no conflict
C19_ConflictIffSameSignature ==
    Len(results) = 4 =>
        \A i \in 1..Len(siblings) :
            (\E e \in 1..Len(results[4][2].errors) :
                  /\ results[4][2].errors[e].fmt = "Conflict with {}: Duplicate API endpoint: {}"
                  /\ results[4][2].errors[e].args[1] = Str(SpecName(siblings[i].yaml)))
                <=> Signatures(self_spec) \cap Signatures(siblings[i].yaml) # {}

\* C20: the COVERAGE result holds the error "Complex spec lacks rollback procedures"
\* exactly when at least two of the five indicators hold (database, migration, payment,
\* more than 10 functional requirements, distributed) and the document mentions
\* neither rollback nor recovery
C20_RollbackErrorIffComplex ==
    Len(results) >= 3 =>
        LET text == Lower(Str(self_spec))
            indicators ==
                <<Contains(text, <<"d","a","t","a","b","a","s","e">>), Contains(text, <<"m","i","g","r","a","t","i","o","n">>),
                  Contains(text, <<"p","a","y","m","e","n","t">>),
                  PyLen(GetOr(self_spec, <<"f","u","n","c","t","i","o","n","a","l","_","r","e","q","u","i","r","e","m","e","n","t","s">>, PyList(<<>>))) > 10,
                  Contains(text, <<"d","i","s","t","r","i","b","u","t","e","d">>)>>
            complex == Cardinality({i \in 1..5 : indicators[i]}) >= 2
        IN  InSeq(Msg("Complex spec lacks rollback procedures", <<>>), results[3][2].errors)
                <=> (complex /\ ~Contains(text, <<"r","o","l","l","b","a","c","k">>) /\ ~Contains(text, <<"r","e","c","o","v","e","r","y">>))

----------------------------------------------------------------------------
(* Properties of the adversaries' rules, under Spec *)

\* the full text of the reviewed document contains "execute"
MentionsExecute == Contains(Lower(Str(review_spec)), <<"e","x","e","c","u","t","e">>)

\* C16: for a document whose full text contains "execute", the findings the Security
\* adversary returns hold a CRITICAL finding with the issue "Command injection risk",
\* whatever else the document contains, and a report of the review is BLOCKED and
\* requires human review
C16_ExecuteIsCritical ==
    (reviewPc \in {"gather", "returned"} /\ task[1] = "done" /\ MentionsExecute) =>
        /\ \E j \in 1..Len(task_result[1]) :
               /\ task_result[1][j].severity = "CRITICAL"
               /\ task_result[1][j].issue = Msg("Command injection risk", <<>>)
        /\ \A k \in 1..Len(report) :
               /\ StartsWith(report[k].approval_status, <<"B","L","O","C","K","E","D">>)
               /\ report[k].human_review_required
               /\ report[k].critical_findings > 0

\* a report for a document that mentions "execute" next to the protection terms
\* sanitize, parameterized and escape
C16_ExecuteWithMitigations ==
    /\ report # <<>>
    /\ MentionsExecute
    /\ Contains(Lower(Str(review_spec)), <<"s","a","n","i","t","i","z","e">>)
    /\ Contains(Lower(Str(review_spec)), <<"p","a","r","a","m","e","t","e","r","i","z","e","d">>)

\* the items of a section of the reviewed document, none when the section is absent
SectionItems(section) ==
    IF HasKey(review_spec, section) THEN Items(Get(review_spec, section)) ELSE <<>>

\* the findings of the per-item scan among the findings the Ambiguity adversary returned
VagueScan ==
    LET IsVague(f) == f.issue.fmt = "Ambiguous term '{}' in requirement"
    IN  SelectSeq(task_result[2], IsVague)

\* C17: the per-item scan gives one MEDIUM finding for each pair of an item of
\* functional_requirements or non_functional_requirements and a vague term its
\* lower-cased text contains, and no other; the finding carries the suggestion of its
\* term, and the findings come in the order of the items, then of the table
C17_OneFindingPerItemAndTerm ==
    (task[2] = "done" /\ IsDict(review_spec)) =>
        LET items == SectionItems(<<"f","u","n","c","t","i","o","n","a","l","_","r","e","q","u","i","r","e","m","e","n","t","s">>)
                         \o SectionItems(<<"n","o","n","_","f","u","n","c","t","i","o","n","a","l","_","r","e","q","u","i","r","e","m","e","n","t","s">>)
            lowered == List([i \in 1..Len(items) |-> Lower(TextOf(items[i]))])
            pairs == {p \in (1..Len(items)) \X (1..Len(vague_terms)) :
                         Contains(lowered[p[1]], vague_terms[p[2]][1])}
            Rank(p) == 1 + Cardinality({q \in pairs :
                                           q[1] < p[1] \/ (q[1] = p[1] /\ q[2] < p[2])})
        IN  /\ Len(VagueScan) = Cardinality(pairs)
            /\ \A p \in pairs :
                   LET f == VagueScan[Rank(p)]
                   IN  /\ f.severity = "MEDIUM"
                       /\ f.issue.args = <<vague_terms[p[2]][1]>>
                       /\ f.suggested_defense = Some(vague_terms[p[2]][2])
                       /\ f.details.args = <<Take(TextOf(items[p[1]]), 100)>>
            /\ \A k \in 1..Len(VagueScan) :
                   /\ VagueScan[k].issue.args = <<<<"s","h","o","u","l","d">>>>
                          => VagueScan[k].suggested_defense = Some("Use 'MUST' for requirements")
                   /\ VagueScan[k].issue.args = <<<<"r","e","a","s","o","n","a","b","l","e">>>>
                          => VagueScan[k].suggested_defense = Some("Specify exact bounds")

\* the scan of a document with an item of two vague terms in each of the two sections,
\* an item of one term and an item of none
C17_TwoSectionsScanned ==
    /\ task[2] = "done"
    /\ IsDict(review_spec)
    /\ HasKey(review_spec, <<"n","o","n","_","f","u","n","c","t","i","o","n","a","l","_","r","e","q","u","i","r","e","m","e","n","t","s">>)
    /\ Len(SectionItems(<<"f","u","n","c","t","i","o","n","a","l","_","r","e","q","u","i","r","e","m","e","n","t","s">>)) = 2
    /\ Len(VagueScan) = 5
    /\ VagueScan[1].issue.args = <<<<"s","h","o","u","l","d">>>>
    /\ VagueScan[2].issue.args = <<<<"r","e","a","s","o","n","a","b","l","e">>>>
    /\ VagueScan[3].issue.args = <<<<"r","o","b","u","s","t">>>>

----------------------------------------------------------------------------
(* Properties of the report, under Spec *)

\* C21: defended_spec_changes of a report is the subsequence of its merged finding list
\* made of the findings with a suggested_defense, in the same order, each entry holding
\* the issue, the suggested_defense and the severity of its finding; so there are at
\* most total_findings entries
C21_ChangesFollowFindings ==
    \A k \in 1..Len(report) :
        LET Suggests(f) == f.suggested_defense # None
            defended == SelectSeq(ReportFindings(report[k]), Suggests)
            changes == report[k].defended_spec_changes
        IN  /\ Len(changes) = Len(defended)
            /\ \A j \in 1..Len(changes) :
                   changes[j] = [issue |-> defended[j].issue,
                                 change |-> defended[j].suggested_defense[1],
                                 severity |-> defended[j].severity]
            /\ Len(changes) <= report[k].total_findings

\* a report whose changes come from the findings of two adversaries and differ in
\* severity
C21_ChangesOfTwoAdversaries ==
    /\ report # <<>>
    /\ Len(report[1].defended_spec_changes) >= 3
    /\ \E i, j \in 1..Len(report[1].findings_by_adversary) :
           /\ i < j
           /\ report[1].findings_by_adversary[i][2] # <<>>
           /\ report[1].findings_by_adversary[j][2] # <<>>
    /\ \E i, j \in 1..Len(report[1].defended_spec_changes) :
           report[1].defended_spec_changes[i].severity
               # report[1].defended_spec_changes[j].severity

\* C22: run_review starts the five adversaries together, on the one document it loaded,
\* and a report exists only when every one of them has returned; the report holds, for
\* each adversary, the list that adversary returned
C22_ReportAfterAllCompleted ==
    /\ reviewPc = "gather" => \A a \in 1..NumAdversaries : task[a] # "none"
    /\ reviewPc = "new" => \A a \in 1..NumAdversaries : task[a] = "none"
    /\ report # <<>> =>
           /\ \A a \in 1..NumAdversaries : task[a] = "done"
           /\ Len(report[1].findings_by_adversary) = NumAdversaries
           /\ \A a \in 1..NumAdversaries :
                  report[1].findings_by_adversary[a] = <<adversaries[a], task_result[a]>>

\* a report built after the last registered adversary finished first and the first
\* registered one last, both with findings
C22_LastStartedFinishedFirst ==
    /\ report # <<>>
    /\ completed[1] = NumAdversaries
    /\ completed[NumAdversaries] = 1
    /\ task_result[1] # <<>>
    /\ task_result[NumAdversaries] # <<>>

\* C26: in every report total_findings is the sum of the lengths of the lists of
\* findings_by_adversary, critical_findings is the number of CRITICAL findings in them
\* and so at most total_findings, findings_by_adversary has the five registered
\* adversaries as its keys, and every finding under a key names that adversary
C26_ReportCounts ==
    \A k \in 1..Len(report) :
        LET by == report[k].findings_by_adversary
            RECURSIVE SumLen(_)
            SumLen(i) == IF i = 0 THEN 0 ELSE Len(by[i][2]) + SumLen(i - 1)
            CriticalOf(i) ==
                Cardinality({j \in 1..Len(by[i][2]) : by[i][2][j].severity = "CRITICAL"})
            RECURSIVE SumCritical(_)
            SumCritical(i) == IF i = 0 THEN 0 ELSE CriticalOf(i) + SumCritical(i - 1)
        IN  /\ report[k].total_findings = SumLen(Len(by))
            /\ report[k].critical_findings = SumCritical(Len(by))
            /\ report[k].critical_findings <= report[k].total_findings
            /\ Len(by) = NumAdversaries
            /\ \A a \in 1..NumAdversaries : \E i \in 1..Len(by) : by[i][1] = adversaries[a]
            /\ \A i \in 1..Len(by) : \A j \in 1..Len(by[i][2]) :
                   by[i][2][j].adversary = by[i][1]

\* a report with an empty list under one key, findings under another, and a CRITICAL
\* finding among findings that are not all CRITICAL
C26_EmptyListKept ==
    /\ report # <<>>
    /\ \E i \in 1..Len(report[1].findings_by_adversary) :
           report[1].findings_by_adversary[i][2] = <<>>
    /\ report[1].critical_findings > 0
    /\ report[1].critical_findings < report[1].total_findings

----------------------------------------------------------------------------
(* The document during validation and review, under Spec *)

\* C24: the document is read-only: once loaded, self.spec of the validator and spec of
\* run_review are the document as loaded, in every state up to the end of the run, and
\* no step changes them, the file or the sibling files
C24_DocumentReadOnly ==
    /\ []((gatePc \in {"loop", "running", "returned"}) => self_spec = _load_spec(file).value)
    /\ []((reviewPc \in {"gather", "returned"}) => review_spec = ReviewLoad(file).value)
    /\ [][/\ file' = file
          /\ siblings' = siblings
          /\ (gatePc \in {"loop", "running"} => self_spec' = self_spec)
          /\ (reviewPc = "gather" => review_spec' = review_spec)]_vars

\* both stages have run to their end on a document with functional and non-functional
\* requirements, the Ambiguity adversary with findings
C24_BothStagesRan ==
    /\ gatePc = "returned"
    /\ reviewPc = "returned"
    /\ HasKey(review_spec, <<"n","o","n","_","f","u","n","c","t","i","o","n","a","l","_","r","e","q","u","i","r","e","m","e","n","t","s">>)
    /\ HasKey(review_spec, <<"f","u","n","c","t","i","o","n","a","l","_","r","e","q","u","i","r","e","m","e","n","t","s">>)
    /\ task_result[2] # <<>>

\* C25: for an outline-format document the review sees the document the validator
\* parsed: each bullet of Functional Requirements that contains a vague term is an item
\* of functional_requirements for the Ambiguity adversary, which returns the per-item
\* finding for it
C25_OutlineReviewedAsParsed ==
    (file.suffix # <<".","y","a","m","l">> /\ IsDict(self_spec) /\ task[2] = "done") =>
        /\ review_spec = self_spec
        /\ LET items == Items(GetOr(self_spec, <<"f","u","n","c","t","i","o","n","a","l","_","r","e","q","u","i","r","e","m","e","n","t","s">>, PyList(<<>>)))
           IN  \A i \in 1..Len(items), t \in 1..Len(vague_terms) :
                   Contains(Lower(TextOf(items[i])), vague_terms[t][1]) =>
                       \E k \in 1..Len(VagueScan) :
                           /\ VagueScan[k].issue.args = <<vague_terms[t][1]>>
                           /\ VagueScan[k].details.args = <<Take(TextOf(items[i]), 100)>>

----------------------------------------------------------------------------
(* Independence of the adversaries, under Spec *)

\* C23: the findings an adversary returns are those of its attack_spec on the document
\* alone, whichever adversaries ran before it and in whichever order; and its findings
\* list holds them
C23_FindingsAsWhenAlone ==
    \A a \in 1..NumAdversaries :
        task[a] = "done" =>
            /\ task_result[a] = AttackOutcome[review_spec][a].value
            /\ self_findings[a] = task_result[a]

\* the Security adversary ran fourth, after an adversary that returned findings, and
\* returned findings itself
C23_RanAfterOthers ==
    /\ Len(completed) >= 4
    /\ completed[4] = 1
    /\ task[1] = "done"
    /\ task_result[1] # <<>>
    /\ \E b \in 2..NumAdversaries : task[b] = "done" /\ task_result[b] # <<>>

----------------------------------------------------------------------------
(* Properties of a shared orchestrator, under SpecOrchestrator *)

\* the report of the c-th call as its holder reads it now: the lists of
\* findings_by_adversary with their present content
ReportNow(c) ==
    LET r == call[c].report[1]
    IN  [r EXCEPT !.findings_by_adversary =
            List([i \in 1..Len(r.findings_by_adversary) |->
                     <<r.findings_by_adversary[i][1], heap[r.findings_by_adversary[i][2]]>>])]

\* the report of a review of the document alone, on an orchestrator of its own
ReportAlone(spec) ==
    AdversarialReport(spec,
        List([a \in 1..NumAdversaries |-> AttackOutcome[spec][a].value]))

\* C27: when run_review calls on one orchestrator overlap, each returned report holds
\* exactly the findings of its own document: it reads, at every later moment, as the
\* report of a review of that document alone
C27_ReportOfOwnDocument ==
    \A c \in 1..MaxCalls :
        call[c].report # <<>> => ReportNow(c) = ReportAlone(call[c].spec)

\* two calls on different documents have returned, and their tasks interleaved: the
\* first adversary ran last for the second call, the fifth last for the first call
C27_InterleavedCalls ==
    /\ call[1].report # <<>>
    /\ call[2].report # <<>>
    /\ call[1].spec # call[2].spec
    /\ findings_ref[1] = <<2, 1>>
    /\ findings_ref[NumAdversaries] = <<1, NumAdversaries>>
    /\ call[1].report[1].total_findings > 0
    /\ call[2].report[1].total_findings > 0

\* C28: a report that run_review has returned is not changed by any later step of a
\* review on the same orchestrator: the report stays the same and so does the content
\* of each of its finding lists
C28_ReturnedReportUnchanged ==
    [][\A c \in 1..MaxCalls :
           call[c].report # <<>> =>
               /\ call'[c].report = call[c].report
               /\ \A a \in 1..NumAdversaries :
                      heap'[call[c].report[1].findings_by_adversary[a][2]]
                          = heap[call[c].report[1].findings_by_adversary[a][2]]]_vars

\* the first call has returned a report with findings, and every adversary has run
\* again since, for a second call on another document that has returned too
C28_ReviewedAgain ==
    /\ call[1].report # <<>>
    /\ call[1].report[1].total_findings > 0
    /\ call[2].report # <<>>
    /\ call[1].spec # call[2].spec
    /\ \A a \in 1..NumAdversaries : findings_ref[a] = <<2, a>>

====
